---- MODULE Spec2Model ----
(***************************************************************************)
(* Swap-Comparison-Bungee: the price resolver (getTokenPrice and its       *)
(* cache), the USD -> base-unit conversion, the quote adapters             *)
(* (getLiFiQuote, getBungeeQuotesBoth, getBungeeQuote) and the handler of  *)
(* POST /api/quotes of the server's routes file, src/unnamed/part_000,     *)
(* with the provider store of src/storage/storage.ts.                      *)
(*                                                                         *)
(* JavaScript values are records [k, v]: k is the kind ("num", "nan",     *)
(* "inf", "str", "undef") and v the integer value of a number.  Prices and *)
(* USD amounts are whole numbers; a token amount is the exact fraction     *)
(* usd / price.  Integers too large for TLC (10^18 base units) are         *)
(* kept as mantissa and decimal exponent, [m, e] = m * 10^e.  Of a quote   *)
(* the fields outputAmount, error, inputTokenAmount, tokenPrice and        *)
(* provider are kept; estimatedTime is left out.                           *)
(***************************************************************************)
EXTENDS Integers, Sequences, FiniteSets, TLC

VARIABLES
    tokenPriceCache,  \* part_000:423  Map cacheKey -> {price, timestamp}
    now,              \* Date.now(), in milliseconds
    proc,             \* the getTokenPrice executions, each at an await point
    q,                \* the quote-adapter call in progress
    conv,             \* one evaluation of the base-unit conversion
    swapProviders,    \* storage.ts:14  Map id -> SwapProvider, in insertion order
    req               \* the POST /api/quotes request in progress

vars == <<tokenPriceCache, now, proc, q, conv, swapProviders, req>>

-----------------------------------------------------------------------------
(* Bounds of the model *)

MaxUsd == 6          \* conversion inputs: usdAmount in 1..MaxUsd
MaxPrice == 7        \* conversion inputs: unitPrice in 1..MaxPrice
MaxDecimals == 8     \* conversion inputs: decimals in 1..MaxDecimals
MaxTicks == 2        \* clock advances per behaviour
TickMs == 150000     \* milliseconds per clock advance

-----------------------------------------------------------------------------
(* JavaScript values *)

Num(n) == [k |-> "num", v |-> n]
NaN == [k |-> "nan", v |-> 0]
Infinity == [k |-> "inf", v |-> 1]
Str == [k |-> "str", v |-> 0]        \* a non-empty, non-numeric string
Undef == [k |-> "undef", v |-> 0]

\* JavaScript truthiness: 0, NaN and undefined are falsy
Truthy(x) == \/ x.k \in {"inf", "str"}
             \/ x.k = "num" /\ x.v # 0

\* x > 0 (a non-numeric string compares as NaN: false)
GtZero(x) == \/ x.k = "inf" /\ x.v > 0
             \/ x.k = "num" /\ x.v > 0

\* typeof x === 'number'
IsNumberType(x) == x.k \in {"num", "nan", "inf"}

RECURSIVE Pow10(_)
Pow10(n) == IF n = 0 THEN 1 ELSE 10 * Pow10(n - 1)

\* n / d for n >= 0, d > 0, rounded to the nearest integer, halves up
\* (Number.prototype.toFixed picks the larger of two equally close values)
RoundDiv(n, d) == (2 * n + d) \div (2 * d)

\* the integer m * 10^e, with the trailing zeros of m moved into e, so that
\* equal integers have one representation
RECURSIVE Big(_, _)
Big(m, e) ==
    IF m = 0 THEN [m |-> 0, e |-> 0]
    ELSE IF m % 10 = 0 THEN Big(m \div 10, e + 1)
    ELSE [m |-> m, e |-> e]

\* a > b for two such integers, a.m, b.m >= 0 (a mantissa is below 10^10)
BigGt(a, b) ==
    IF a.m = 0 THEN FALSE
    ELSE IF b.m = 0 THEN TRUE
    ELSE IF a.e >= b.e
         THEN (a.e - b.e > 9) \/ (a.m * Pow10(a.e - b.e) > b.m)
         ELSE (b.e - a.e <= 9) /\ (a.m > b.m * Pow10(b.e - a.e))

\* a decimal string with a fixed number of places, as its digits read as an
\* integer: "0.5000" is 5000 with 4 places, "2630.00" is 263000 with 2 places
DecStr(units, places) == [m |-> units.m, e |-> units.e, places |-> places]


-----------------------------------------------------------------------------
(* USD -> token amount -> base units (part_000:805-830, 1013-1039, 1329-1354) *)

MICRO == 1000000

\* A plausible slip: only a missing price is replaced (fromTokenPrice ?? 1).
TokenPriceOfOnlyMissing(fromTokenPrice) ==
    IF fromTokenPrice.k = "undef" THEN Num(1) ELSE fromTokenPrice

\* let tokenPrice = fromTokenPrice && fromTokenPrice > 0 ? fromTokenPrice : 1
TokenPriceOf(fromTokenPrice) ==
    IF Truthy(fromTokenPrice) /\ GtZero(fromTokenPrice) THEN fromTokenPrice ELSE Num(1)

\* let tokenAmount = usdAmount / tokenPrice, the exact fraction n / d
TokenAmountOf(usdAmount, tokenPrice) ==
    CASE usdAmount.k = "nan" -> [k |-> "nan", n |-> 0, d |-> 1]
      [] usdAmount.k = "inf" -> [k |-> "inf", n |-> usdAmount.v, d |-> 1]
      [] tokenPrice.k = "inf" -> [k |-> "num", n |-> 0, d |-> 1]
      [] tokenPrice.v = 0 ->            \* x / 0 is NaN for x = 0, else +-Infinity
            IF usdAmount.v = 0 THEN [k |-> "nan", n |-> 0, d |-> 1]
            ELSE [k |-> "inf", n |-> usdAmount.v, d |-> 1]
      [] tokenPrice.v < 0 -> [k |-> "num", n |-> -usdAmount.v, d |-> -tokenPrice.v]
      [] OTHER -> [k |-> "num", n |-> usdAmount.v, d |-> tokenPrice.v]

\* A plausible slip: the isFinite test is missing.
InvalidTokenAmountNoFinite(tokenAmount) ==
    /\ tokenAmount.k = "num"
    /\ tokenAmount.n <= 0

\* tokenAmount <= 0 || !isFinite(tokenAmount)
InvalidTokenAmount(tokenAmount) ==
    \/ tokenAmount.k # "num"
    \/ tokenAmount.n <= 0

\* Math.floor(tokenAmount * 1000000)
FloorMicro(tokenAmount) == (tokenAmount.n * MICRO) \div tokenAmount.d

\* tokenAmount.toFixed(6)
ToFixed6(tokenAmount) ==
    DecStr(Big(RoundDiv(tokenAmount.n * MICRO, tokenAmount.d), 0), 6)

\* A plausible slip: the scaled amount is divided by 10^5 instead of 10^6.
ToBaseUnitsWrongScale(tokenAmount, decimals) ==
    IF decimals >= 5
    THEN Big(FloorMicro(tokenAmount), decimals - 5)
    ELSE Big(FloorMicro(tokenAmount) \div Pow10(5 - decimals), 0)

\* BigInt(Math.floor(tokenAmount * 1000000)) * 10n ** BigInt(decimals) / BigInt(1000000)
\* BigInt division truncates.  For decimals >= 6 the quotient is exactly
\* micro * 10^(decimals - 6); for decimals < 6 it is floor(micro / 10^(6 - decimals)).
ToBaseUnits(tokenAmount, decimals) ==
    IF decimals >= 6
    THEN Big(FloorMicro(tokenAmount), decimals - 6)
    ELSE Big(FloorMicro(tokenAmount) \div Pow10(6 - decimals), 0)

-----------------------------------------------------------------------------
(* Idle values of the parts of the state *)

Procs == {"a", "b"}       \* two getTokenPrice executions may overlap

IdleProc == [pc |-> "idle", chain |-> "", token |-> "", result |-> Undef,
             source |-> "", reqs |-> <<>>, seen |-> "", tokens |-> <<>>]

NoCall == [pc |-> "idle"]
NoConv == [st |-> "none"]
EmptyCache == <<>>
NoRequest == [pc |-> "idle"]

\* the records the constructor stores (storage.ts:28-48); id stands for the
\* random UUID: the position of the record in the Map
SwapProvider(id, name, isActive) == [id |-> id, name |-> name, isActive |-> isActive]
DefaultProviders == <<SwapProvider(1, "LiFi", TRUE), SwapProvider(2, "Bungee", TRUE)>>

-----------------------------------------------------------------------------
(* The conversion as a pure function: inputs drawn at Init, applied once *)

ConvInputs ==
    { [st |-> "input", usdAmount |-> Num(u), fromTokenPrice |-> Num(p), decimals |-> d] :
        u \in 1..MaxUsd, p \in 1..MaxPrice, d \in 1..MaxDecimals }

InitConv ==
    /\ tokenPriceCache = EmptyCache
    /\ now = 0
    /\ proc = [p \in Procs |-> IdleProc]
    /\ q = NoCall
    /\ conv \in ConvInputs
    /\ swapProviders = DefaultProviders
    /\ req = NoRequest

Convert ==
    /\ conv.st = "input"
    /\ LET tokenPrice == TokenPriceOf(conv.fromTokenPrice)
           tokenAmount == TokenAmountOf(conv.usdAmount, tokenPrice)
       IN  /\ ~InvalidTokenAmount(tokenAmount)
           /\ conv' = [st |-> "done",
                       usdAmount |-> conv.usdAmount,
                       fromTokenPrice |-> conv.fromTokenPrice,
                       decimals |-> conv.decimals,
                       tokenAmount |-> tokenAmount,
                       fromAmount |-> ToBaseUnits(tokenAmount, conv.decimals)]
    /\ UNCHANGED <<tokenPriceCache, now, proc, q, swapProviders, req>>

NextConv == Convert

SpecConv == InitConv /\ [][NextConv]_vars

\* |tokenAmount - base / 10^decimals| <= tolMicro * 10^-6, by cross-multiplication
\* (base = m * 10^e, tokenAmount = n / d)
WithinMicro(tokenAmount, base, decimals, tolMicro) ==
    LET x == base.e + 6 - decimals
        lhs == IF x >= 0
               THEN tokenAmount.n * MICRO - base.m * Pow10(x) * tokenAmount.d
               ELSE tokenAmount.n * MICRO * Pow10(-x) - base.m * tokenAmount.d
        rhs == IF x >= 0 THEN tolMicro * tokenAmount.d
                         ELSE tolMicro * tokenAmount.d * Pow10(-x)
    IN  lhs <= rhs /\ -lhs <= rhs

-----------------------------------------------------------------------------
(* Token addresses, chains and the static tables of getTokenPrice *)

ZERO_ADDRESS == "0x0000000000000000000000000000000000000000"
E_LOWER == "0xeeeeeeeeeeeeeeeeeeeeeeeeeeeeeeeeeeeeeeee"
E_MIXED == "0xEeeeeEeeeEeEeeEeEeEeeEEEeeeeEeeeeeeeEEeE"
USDT == "0xdac17f958d2ee523a2206206994597c13d831ec7"
USDT_MIXED == "0xdAC17F958D2ee523a2206206994597C13D831ec7"
USDT_ALT == "0x55d398326f99059ff775485246999027b3197955"   \* another token with symbol usdt
DAI == "0x6b175474e89094c44da98b954eedeac495271d0f"
UNI == "0x1f9840a85d5af5bf1d1762f925bdaddc4201f984"
UNI_ALT == "0xfa7f8980b0f1e64a2062791cc3b0871572f1f7f0"    \* another token with symbol UNI
UNKNOWN_TOKEN == "0x00000000000000000000000000000000000000aa"  \* a token no table knows

\* String.prototype.toLowerCase on the addresses of the model
ToLowerCase(token) ==
    CASE token = E_MIXED -> E_LOWER
      [] token = USDT_MIXED -> USDT
      [] OTHER -> token

\* toLowerCase on token symbols
SymbolLower(symbol) ==
    CASE symbol = "USDT" -> "usdt"
      [] symbol = "UNI" -> "uni"
      [] OTHER -> symbol

IsNativeToken(token) ==
    LET lowerToken == ToLowerCase(token)
    IN  lowerToken = ZERO_ADDRESS \/ lowerToken = E_LOWER

\* A plausible slip: the all-e sentinel is returned for LiFi and the all-zero one for Bungee.
NormalizeTokenAddressSwapped(token, isForLiFi) ==
    LET lowerToken == ToLowerCase(token)
    IN  IF lowerToken = ZERO_ADDRESS \/ lowerToken = E_LOWER
        THEN (IF isForLiFi THEN E_MIXED ELSE ZERO_ADDRESS)
        ELSE token

NormalizeTokenAddress(token, isForLiFi) ==
    LET lowerToken == ToLowerCase(token)
    IN  IF lowerToken = ZERO_ADDRESS \/ lowerToken = E_LOWER
        THEN (IF isForLiFi THEN ZERO_ADDRESS ELSE E_MIXED)
        ELSE token

PRICE_CACHE_DURATION == 5 * 60 * 1000

\* rows of nativeTokenSymbols / nativePrices whose price is a whole number
NativeTokenSymbols == [c \in {"1", "56", "43114"} |->
    CASE c = "1" -> "ethereum" [] c = "56" -> "binancecoin" [] OTHER -> "avalanche-2"]

NativePrices == [c \in {"1", "56", "43114"} |->
    CASE c = "1" -> 3800 [] c = "56" -> 650 [] OTHER -> 42]

KnownTokenContracts == [a \in {UNI, USDT} |->
    CASE a = UNI -> "uniswap" [] OTHER -> "tether"]

PlatformMappings == [c \in {"1", "56", "137", "43114"} |->
    CASE c = "1" -> "ethereum" [] c = "56" -> "binance-smart-chain"
      [] c = "137" -> "polygon-pos" [] OTHER -> "avalanche"]

Stablecoins == {USDT, DAI}

Chains == {"1", "999"}                 \* a chain of the tables and one outside them
PriceTokens == {E_MIXED, USDT, USDT_MIXED, UNI}

-----------------------------------------------------------------------------
(* Upstream responses *)

\* a token of a provider's token list; price stands for priceInUsd / priceUSD
Entry(chain, address, symbol, decimals, price) ==
    [chain |-> chain, address |-> address, symbol |-> symbol,
     decimals |-> decimals, price |-> price]

NoToken == Entry("", "", "", 0, Undef)      \* Array.prototype.find found nothing
Found(token) == token.address # ""

SymbolOf(address) ==
    CASE address = USDT_MIXED -> "USDT"
      [] address = USDT_ALT -> "usdt"
      [] address = UNI_ALT -> "UNI"
      [] address = UNI -> "UNI"
      [] OTHER -> "ETH"

PriceFields == {Num(2), Num(-5), Str, Undef}

PriceEntries ==
    { Entry("1", a, SymbolOf(a), 18, pf) :
        a \in {USDT_MIXED, USDT_ALT, UNI_ALT}, pf \in PriceFields }
    \cup { Entry("999", E_LOWER, "ETH", 18, Num(5)) }

\* token-list bodies: no token, one token, or two tokens of one symbol
PriceListBodies ==
    {<<>>} \cup { <<e>> : e \in PriceEntries }
           \cup { <<Entry("1", USDT_ALT, "usdt", 18, Num(-5)),
                     Entry("1", USDT_MIXED, "USDT", 18, Num(2))>>,
                   <<Entry("1", USDT_ALT, "usdt", 18, Num(2)),
                     Entry("1", USDT_ALT, "usdt", 18, Num(5))>> }

\* kind "throw": fetch rejects; "http": response.ok is false; "badjson": json()
\* rejects or the body has not the expected shape; "ok": the body is `body`
FailureKinds == {"throw", "http", "badjson"}

ListResponses(bodies) ==
    { [kind |-> f, body |-> <<>>] : f \in FailureKinds }
    \cup { [kind |-> "ok", body |-> b] : b \in bodies }

UsdFields == {Num(3000), Num(0), Num(-5), Str}

\* responses of the spot feed: the usd field of the requested id or address
FeedResponses ==
    { [kind |-> f, usd |-> Undef] : f \in FailureKinds }
    \cup { [kind |-> "ok", usd |-> u] : u \in UsdFields }

\* tokenData.result[chain] / tokenData.tokens[chain]; <<>> when the chain is not listed
ChainTokens(body, chain) == SelectSeq(body, LAMBDA e : e.chain = chain)

\* tokens.find(t => t.address.toLowerCase() === address)
FindByAddress(tokens, address) ==
    LET idx == { i \in 1..Len(tokens) : ToLowerCase(tokens[i].address) = address }
    IN  IF idx = {} THEN NoToken
        ELSE tokens[CHOOSE i \in idx : \A j \in idx : i <= j]

\* tokens.find(t => t.symbol.toLowerCase() === symbol.toLowerCase())
FindBySymbol(tokens, symbol) ==
    LET idx == { i \in 1..Len(tokens) : SymbolLower(tokens[i].symbol) = SymbolLower(symbol) }
    IN  IF idx = {} THEN NoToken
        ELSE tokens[CHOOSE i \in idx : \A j \in idx : i <= j]

-----------------------------------------------------------------------------
(* getTokenPrice (part_000:427-731).  An execution runs from one await to the *)
(* next in one step; its record holds the locals that live across an await:  *)
(* pc (the await it is suspended at), tokens (the token list of the chain),  *)
(* and, for the properties, reqs (the endpoints it has requested, in order), *)
(* seen (what the cache check found) and source (the strategy that produced  *)
(* the returned price).  The outer catch (727-730) is not reachable: every   *)
(* await and every property access lies inside one of the inner try blocks.  *)

\* A plausible slip: the key keeps the caller's letter case.
CacheKeyCaseSensitive(fromChain, fromToken) == <<fromChain, fromToken>>

\* const cacheKey = `${fromChain}-${fromToken.toLowerCase()}`
CacheKey(fromChain, fromToken) == <<fromChain, ToLowerCase(fromToken)>>

\* A plausible slip: an entry is used whatever its age.
CacheFreshNoExpiry(key) == key \in DOMAIN tokenPriceCache

\* cachedPrice && (Date.now() - cachedPrice.timestamp) < PRICE_CACHE_DURATION
CacheFresh(key) ==
    /\ key \in DOMAIN tokenPriceCache
    /\ now - tokenPriceCache[key].timestamp < PRICE_CACHE_DURATION

\* A plausible slip: an overwrite updates the price of the entry in place and
\* leaves the timestamp of the earlier write.
CachePutPriceOnly(key, price) ==
    IF key \in DOMAIN tokenPriceCache
    THEN [tokenPriceCache EXCEPT ![key].price = price]
    ELSE (key :> [price |-> price, timestamp |-> now]) @@ tokenPriceCache

\* tokenPriceCache.set(cacheKey, { price, timestamp: Date.now() })
CachePut(key, price) == (key :> [price |-> price, timestamp |-> now]) @@ tokenPriceCache

\* the fetch of `endpoint` is issued and the execution suspends at `pc`
Request(pr, endpoint, pc) == [pr EXCEPT !.pc = pc, !.reqs = Append(@, endpoint)]

\* return price (after the cache write of the strategy `source`)
Return(pr, price, source) ==
    [pr EXCEPT !.pc = "done", !.result = price, !.source = source, !.tokens = <<>>]

\* A plausible slip: the allow-list is searched for the address as the caller wrote it.
InStablecoinsRaw(pr) == pr.token \in Stablecoins

\* stablecoins.includes(normalizedToken)
InStablecoins(pr) == ToLowerCase(pr.token) \in Stablecoins

\* Strategy 5 and the final fallback (698-725)
Strategy5(pr) ==
    IF InStablecoins(pr) THEN Return(pr, Num(1), "stablecoin")
                         ELSE Return(pr, Num(1), "fallback")

\* Strategy 4 (663-696) up to its fetch
EnterStrategy4(pr) ==
    IF pr.chain \in DOMAIN PlatformMappings /\ ~IsNativeToken(pr.token)
    THEN Request(pr, "coingecko_token_price", "s4")
    ELSE Strategy5(pr)

\* Strategy 3 (622-661) up to its fetch
EnterStrategy3(pr) ==
    IF ToLowerCase(pr.token) \in DOMAIN KnownTokenContracts
    THEN Request(pr, "coingecko_simple_price", "s3")
    ELSE EnterStrategy4(pr)

\* Strategy 2 (568-573) up to its fetch
EnterStrategy2(pr) == Request(pr, "lifi_tokens", "s2")

\* Strategy 1 (500-505) up to its fetch
EnterStrategy1(pr) == Request(pr, "bungee_tokens_list", "s1")

\* A plausible slip: without a feed price the native asset goes through the token lists.
NativeFallbackNoStatic(pr) == EnterStrategy1(pr)

\* the static native price (479-497), else on to strategy 1
NativeFallback(pr) ==
    IF pr.chain \in DOMAIN NativePrices
    THEN Return(pr, Num(NativePrices[pr.chain]), "native_static")
    ELSE EnterStrategy1(pr)

\* the native branch (442-463) up to its fetch
EnterNative(pr) ==
    IF pr.chain \in DOMAIN NativeTokenSymbols
    THEN Request(pr, "coingecko_simple_price", "native")
    ELSE NativeFallback(pr)

\* priceInUsd !== undefined && !== null && typeof === 'number' && > 0 && !isNaN
ValidBungeePrice(price) ==
    price.k # "undef" /\ IsNumberType(price) /\ GtZero(price) /\ price.k # "nan"

\* token.priceUSD && typeof token.priceUSD === 'number' && token.priceUSD > 0
ValidLifiPrice(price) == Truthy(price) /\ IsNumberType(price) /\ GtZero(price)

\* cgData[id] && cgData[id].usd
FeedHasPrice(r) == r.kind = "ok" /\ Truthy(r.usd)

\* A plausible slip: a miss in the Bungee list goes straight to the feed lookups.
ResolveBungeeSkipsLifi(pr, token) ==
    IF Found(token) /\ ValidBungeePrice(token.price)
    THEN Return(pr, token.price, "bungee")
    ELSE EnterStrategy3([pr EXCEPT !.tokens = <<>>])
\* 546-561: the token found in the Bungee list gives the price, or strategy 2 is next
ResolveBungee(pr, token) ==
    IF Found(token) /\ ValidBungeePrice(token.price)
    THEN Return(pr, token.price, "bungee")
    ELSE EnterStrategy2([pr EXCEPT !.tokens = <<>>])

\* 611-615: the token found in the LiFi list gives the price, or strategy 3 is next
ResolveLifi(pr, token) ==
    IF Found(token) /\ ValidLifiPrice(token.price)
    THEN Return(pr, token.price, "lifi")
    ELSE EnterStrategy3([pr EXCEPT !.tokens = <<>>])

\* getTokenSymbolFromChainData (734-757): the symbol, or "" for null
GetTokenSymbol(r, chainId, tokenAddress) ==
    IF r.kind # "ok" THEN ""
    ELSE LET token == FindByAddress(ChainTokens(r.body, chainId), ToLowerCase(tokenAddress))
         IN  IF Found(token) THEN token.symbol ELSE ""

\* what the cache holds for the key when the call starts
Seen(key) ==
    IF DOMAIN tokenPriceCache = {} THEN "empty"
    ELSE IF key \notin DOMAIN tokenPriceCache THEN "absent"
    ELSE IF now - tokenPriceCache[key].timestamp < PRICE_CACHE_DURATION THEN "valid"
    ELSE "stale"

\* A plausible slip: only a price an upstream or the allow-list gave is cached.
CommitNoFallback(p, pr) ==
    /\ proc' = [proc EXCEPT ![p] = pr]
    /\ tokenPriceCache' =
         IF pr.pc = "done" /\ pr.source \notin {"cache", "fallback", "native_static"}
         THEN CachePut(CacheKey(pr.chain, pr.token), pr.result)
         ELSE tokenPriceCache

\* the step of execution p ends in pr; a return on a miss has written the cache
Commit(p, pr) ==
    /\ proc' = [proc EXCEPT ![p] = pr]
    /\ tokenPriceCache' =
         IF pr.pc = "done" /\ pr.source # "cache"
         THEN CachePut(CacheKey(pr.chain, pr.token), pr.result)
         ELSE tokenPriceCache

\* 427-463/503: the call, its cache check, and the first fetch on a miss
BeginGetTokenPrice(p, fromChain, fromToken) ==
    /\ proc[p].pc = "idle"
    /\ LET cacheKey == CacheKey(fromChain, fromToken)
           pr == [IdleProc EXCEPT !.chain = fromChain, !.token = fromToken,
                                  !.seen = Seen(<<fromChain, ToLowerCase(fromToken)>>)]
       IN  Commit(p, IF CacheFresh(cacheKey)
                     THEN Return(pr, tokenPriceCache[cacheKey].price, "cache")
                     ELSE IF IsNativeToken(fromToken) THEN EnterNative(pr)
                     ELSE EnterStrategy1(pr))

\* a call of getTokenPrice from outside the model
GetTokenPrice(p, fromChain, fromToken) ==
    /\ BeginGetTokenPrice(p, fromChain, fromToken)
    /\ UNCHANGED <<now, q, conv, swapProviders, req>>

\* 461-497: what the execution does with the spot feed's answer for the native asset
NativeOutcome(pr, r) ==
    IF FeedHasPrice(r) THEN Return(pr, r.usd, "native_feed")
                       ELSE NativeFallback(pr)

\* 461-497: the spot feed answers for the native asset
NativeResponse(p, r) ==
    /\ proc[p].pc = "native"
    /\ Commit(p, NativeOutcome(proc[p], r))
    /\ UNCHANGED <<now, q, conv, swapProviders, req>>

\* 503-525: the Bungee token list answers
BungeeListResponse(p, r) ==
    /\ proc[p].pc = "s1"
    /\ LET pr == proc[p]
           tokens == IF r.kind = "ok" THEN ChainTokens(r.body, pr.chain) ELSE <<>>
           token == FindByAddress(tokens, ToLowerCase(pr.token))
       IN  Commit(p, IF tokens = <<>> THEN EnterStrategy2(pr)
                     ELSE IF Found(token) THEN ResolveBungee(pr, token)
                     ELSE Request([pr EXCEPT !.tokens = tokens], "bungee_tokens_list", "s1_sym"))
    /\ UNCHANGED <<now, q, conv, swapProviders, req>>

\* 571-590: the LiFi token list answers
LifiListResponse(p, r) ==
    /\ proc[p].pc = "s2"
    /\ LET pr == proc[p]
           tokens == IF r.kind = "ok" THEN ChainTokens(r.body, pr.chain) ELSE <<>>
           token == FindByAddress(tokens, ToLowerCase(pr.token))
       IN  Commit(p, IF tokens = <<>> THEN EnterStrategy3(pr)
                     ELSE IF Found(token) THEN ResolveLifi(pr, token)
                     ELSE Request([pr EXCEPT !.tokens = tokens], "bungee_tokens_list", "s2_sym"))
    /\ UNCHANGED <<now, q, conv, swapProviders, req>>

\* 525-561 / 590-615: getTokenSymbolFromChainData answers; symbol match, UNI special case
SymbolHelperResponse(p, r) ==
    /\ proc[p].pc \in {"s1_sym", "s2_sym"}
    /\ LET pr == proc[p]
           tokenSymbol == GetTokenSymbol(r, pr.chain, ToLowerCase(pr.token))
           bySymbol == IF tokenSymbol # "" THEN FindBySymbol(pr.tokens, tokenSymbol) ELSE NoToken
           token == IF ~Found(bySymbol) /\ ToLowerCase(pr.token) = UNI
                    THEN FindBySymbol(pr.tokens, "uni")
                    ELSE bySymbol
       IN  Commit(p, IF pr.pc = "s1_sym" THEN ResolveBungee(pr, token)
                                         ELSE ResolveLifi(pr, token))
    /\ UNCHANGED <<now, q, conv, swapProviders, req>>

\* 645-661: the spot feed answers for a known contract
KnownContractResponse(p, r) ==
    /\ proc[p].pc = "s3"
    /\ Commit(p, IF FeedHasPrice(r) THEN Return(proc[p], r.usd, "known_contract")
                                    ELSE EnterStrategy4(proc[p]))
    /\ UNCHANGED <<now, q, conv, swapProviders, req>>

\* 680-725: the spot feed answers for platform + contract address
PlatformResponse(p, r) ==
    /\ proc[p].pc = "s4"
    /\ Commit(p, IF FeedHasPrice(r) THEN Return(proc[p], r.usd, "platform")
                                    ELSE Strategy5(proc[p]))
    /\ UNCHANGED <<now, q, conv, swapProviders, req>>

\* time passes
Tick ==
    /\ now < MaxTicks * TickMs
    /\ now' = now + TickMs
    /\ UNCHANGED <<tokenPriceCache, proc, q, conv, swapProviders, req>>

InitPrice ==
    /\ tokenPriceCache = EmptyCache
    /\ now = 0
    /\ proc = [p \in Procs |-> IdleProc]
    /\ q = NoCall
    /\ conv = NoConv
    /\ swapProviders = DefaultProviders
    /\ req = NoRequest

\* no execution is suspended at an await
Quiet == \A p \in Procs : proc[p].pc \in {"idle", "done"}

\* calls one after the other ("a", then "b"), over all chains and tokens of the
\* model; time passes between the steps of a call only in SpecPriceConc
NextPrice ==
    \/ \E c \in Chains, t \in PriceTokens : GetTokenPrice("a", c, t)
    \/ \E c \in Chains, t \in PriceTokens :
          proc["a"].pc = "done" /\ GetTokenPrice("b", c, t)
    \/ \E p \in Procs, r \in FeedResponses : NativeResponse(p, r)
    \/ \E p \in Procs, r \in ListResponses(PriceListBodies) : BungeeListResponse(p, r)
    \/ \E p \in Procs, r \in ListResponses(PriceListBodies) : LifiListResponse(p, r)
    \/ \E p \in Procs, r \in ListResponses(PriceListBodies) : SymbolHelperResponse(p, r)
    \/ \E p \in Procs, r \in FeedResponses : KnownContractResponse(p, r)
    \/ \E p \in Procs, r \in FeedResponses : PlatformResponse(p, r)
    \/ Quiet /\ Tick

SpecPrice == InitPrice /\ [][NextPrice]_vars

\* overlapping calls (interleaved at their awaits), over fewer chains and tokens
ConcChains == {"1"}
ConcTokens == {E_MIXED, USDT, USDT_MIXED}

NextPriceConc ==
    \/ \E p \in Procs, c \in ConcChains, t \in ConcTokens : GetTokenPrice(p, c, t)
    \/ \E p \in Procs, r \in FeedResponses : NativeResponse(p, r)
    \/ \E p \in Procs, r \in ListResponses(PriceListBodies) : BungeeListResponse(p, r)
    \/ \E p \in Procs, r \in ListResponses(PriceListBodies) : LifiListResponse(p, r)
    \/ \E p \in Procs, r \in ListResponses(PriceListBodies) : SymbolHelperResponse(p, r)
    \/ \E p \in Procs, r \in FeedResponses : KnownContractResponse(p, r)
    \/ \E p \in Procs, r \in FeedResponses : PlatformResponse(p, r)
    \/ Tick

SpecPriceConc == InitPrice /\ [][NextPriceConc]_vars

-----------------------------------------------------------------------------
(* Properties of getTokenPrice *)

\* execution p starts in this step / returns in this step after a cache miss
Starts(p) == proc[p].pc = "idle" /\ proc'[p].pc # "idle"
ReturnsOnMiss(p) == proc[p].pc \notin {"idle", "done"} /\ proc'[p].pc = "done"

\* the entry under key k is for (chain, token) ignoring letter case
KeyFor(k, chain, token) == k[1] = chain /\ ToLowerCase(k[2]) = ToLowerCase(token)

\* C1: whatever the upstreams answer, getTokenPrice returns a strictly positive
\* number.
C1_PositivePrice ==
    \A p \in Procs :
        proc[p].pc = "done" => proc[p].result.k = "num" /\ proc[p].result.v > 0

\* C2: a call that starts while the cache holds an entry for its chain and its
\* token (ignoring letter case) written less than 5 minutes ago returns that
\* entry's price and issues no request; an entry is written only by a call that
\* completes, with the price that call returns and the time of the write.
C2_CacheHit ==
    [][ /\ \A p \in Procs : Starts(p) =>
              \A k \in DOMAIN tokenPriceCache :
                  ( /\ KeyFor(k, proc'[p].chain, proc'[p].token)
                    /\ now - tokenPriceCache[k].timestamp < PRICE_CACHE_DURATION )
                  => /\ proc'[p].pc = "done"
                     /\ proc'[p].result = tokenPriceCache[k].price
                     /\ proc'[p].reqs = <<>>
                     /\ tokenPriceCache' = tokenPriceCache
        /\ \A k \in DOMAIN tokenPriceCache' :
              (k \notin DOMAIN tokenPriceCache \/ tokenPriceCache'[k] # tokenPriceCache[k])
              => \E p \in Procs :
                    /\ ReturnsOnMiss(p) \/ (Starts(p) /\ proc'[p].pc = "done")
                    /\ KeyFor(k, proc'[p].chain, proc'[p].token)
                    /\ tokenPriceCache'[k] = [price |-> proc'[p].result, timestamp |-> now]
      ]_vars

\* "a" resolved USDT written in lower case; "b", called later with the mixed-case
\* spelling, was served the same price from the cache without a request
C2_Witness ==
    /\ proc["a"].pc = "done" /\ proc["a"].token = USDT /\ proc["a"].source # "cache"
    /\ proc["b"].pc = "done" /\ proc["b"].token = USDT_MIXED /\ proc["b"].source = "cache"
    /\ proc["b"].chain = proc["a"].chain
    /\ proc["b"].result = proc["a"].result
    /\ proc["b"].reqs = <<>>
    /\ now > tokenPriceCache[<<proc["a"].chain, USDT>>].timestamp

\* C3: a call never returns a cached price that is 5 minutes old or older: it
\* then issues its first request instead; a call that returns after a miss has
\* overwritten its entry with the returned price and the current time; no step
\* removes an entry.
C3_Expiry ==
    [][ /\ \A p \in Procs : Starts(p) =>
              /\ (\E k \in DOMAIN tokenPriceCache :
                     /\ KeyFor(k, proc'[p].chain, proc'[p].token)
                     /\ now - tokenPriceCache[k].timestamp >= PRICE_CACHE_DURATION)
                 => proc'[p].pc # "done" /\ Len(proc'[p].reqs) = 1
              /\ proc'[p].source = "cache" =>
                    \E k \in DOMAIN tokenPriceCache :
                        /\ KeyFor(k, proc'[p].chain, proc'[p].token)
                        /\ now - tokenPriceCache[k].timestamp < PRICE_CACHE_DURATION
        /\ \A p \in Procs : ReturnsOnMiss(p) =>
              LET k == <<proc'[p].chain, ToLowerCase(proc'[p].token)>>
              IN  /\ k \in DOMAIN tokenPriceCache'
                  /\ tokenPriceCache'[k] = [price |-> proc'[p].result, timestamp |-> now]
        /\ DOMAIN tokenPriceCache \subseteq DOMAIN tokenPriceCache'
      ]_vars

\* a call found an entry of 5 minutes or more, ran the strategies and has
\* written the entry anew
C3_Witness ==
    \E p \in Procs :
        /\ proc[p].pc = "done" /\ proc[p].seen = "stale"
        /\ proc[p].source # "cache" /\ proc[p].reqs # <<>>
        /\ now >= PRICE_CACHE_DURATION
        /\ tokenPriceCache[<<proc[p].chain, ToLowerCase(proc[p].token)>>].timestamp = now

UpstreamSources == {"bungee", "lifi", "known_contract", "platform"}

\* C4 as stated: for an allow-listed address and an empty cache the result is
\* exactly 1.0 whatever the upstreams answer.
C4_AsStated ==
    \A p \in Procs :
        ( /\ proc[p].pc = "done"
          /\ ToLowerCase(proc[p].token) \in Stablecoins
          /\ proc[p].seen = "empty" )
        => proc[p].result = Num(1)

\* C4 amended: for an allow-listed address and an empty cache, the result is
\* exactly 1.0, given by the allow-list, unless one of strategies 1-4 yields a
\* price, which is then the result; the last-resort fallback is never reached.
C4_Stablecoin ==
    \A p \in Procs :
        ( /\ proc[p].pc = "done"
          /\ ToLowerCase(proc[p].token) \in Stablecoins
          /\ proc[p].seen = "empty" )
        => \/ proc[p].source = "stablecoin" /\ proc[p].result = Num(1)
           \/ proc[p].source \in UpstreamSources

\* the mixed-case USDT address on chain 1, empty cache: both token lists and
\* both feed lookups were requested, none gave a price, the allow-list gave 1.0
C4_Witness ==
    \E p \in Procs :
        /\ proc[p].pc = "done" /\ proc[p].token = USDT_MIXED /\ proc[p].chain = "1"
        /\ proc[p].seen = "empty"
        /\ proc[p].source = "stablecoin" /\ proc[p].result = Num(1)
        /\ Len(proc[p].reqs) >= 4

-----------------------------------------------------------------------------
(* The order of the strategies (part_000:500-725) *)

\* one call from an empty cache, then a second call for the same chain and
\* token in any spelling, over the tokens of SpecPrice, a second allow-listed
\* token, a contract no table knows and the all-zero sentinel; time passes at
\* any moment
StrategyTokens == PriceTokens \cup {DAI, UNKNOWN_TOKEN, ZERO_ADDRESS}

NextStrategies ==
    \/ \E c \in Chains, t \in StrategyTokens : GetTokenPrice("a", c, t)
    \/ \E t \in StrategyTokens :
          /\ proc["a"].pc = "done"
          /\ ToLowerCase(t) = ToLowerCase(proc["a"].token)
          /\ GetTokenPrice("b", proc["a"].chain, t)
    \/ \E p \in Procs, r \in FeedResponses : NativeResponse(p, r)
    \/ \E p \in Procs, r \in ListResponses(PriceListBodies) : BungeeListResponse(p, r)
    \/ \E p \in Procs, r \in ListResponses(PriceListBodies) : LifiListResponse(p, r)
    \/ \E p \in Procs, r \in ListResponses(PriceListBodies) : SymbolHelperResponse(p, r)
    \/ \E p \in Procs, r \in FeedResponses : KnownContractResponse(p, r)
    \/ \E p \in Procs, r \in FeedResponses : PlatformResponse(p, r)
    \/ Tick

SpecStrategies == InitPrice /\ [][NextStrategies]_vars

\* the strategy an execution is suspended in, or the one that gave its result
StrategyOf(pr) ==
    IF pr.pc = "done"
    THEN CASE pr.source = "bungee" -> 1
           [] pr.source = "lifi" -> 2
           [] pr.source = "known_contract" -> 3
           [] pr.source = "platform" -> 4
           [] pr.source = "stablecoin" -> 5
           [] pr.source = "fallback" -> 6
           [] OTHER -> 0
    ELSE CASE pr.pc \in {"s1", "s1_sym"} -> 1
           [] pr.pc \in {"s2", "s2_sym"} -> 2
           [] pr.pc = "s3" -> 3
           [] pr.pc = "s4" -> 4
           [] OTHER -> 0

\* the endpoints strategy k requests: its own, and for the token lists the
\* list getTokenSymbolFromChainData reads
EndpointsOf(k) ==
    CASE k = 1 -> {"bungee_tokens_list"}
      [] k = 2 -> {"lifi_tokens", "bungee_tokens_list"}
      [] k = 3 -> {"coingecko_simple_price"}
      [] k = 4 -> {"coingecko_token_price"}
      [] OTHER -> {}

\* strategy k has something to ask or to say for (chain, token)
Applies(k, chain, token) ==
    CASE k = 3 -> ToLowerCase(token) \in DOMAIN KnownTokenContracts
      [] k = 4 -> chain \in DOMAIN PlatformMappings
      [] k = 5 -> ToLowerCase(token) \in Stablecoins
      [] OTHER -> TRUE

\* the first strategy after k that applies (strategy 6 always does)
NextStrategy ==
    [k \in 1..5, chain \in Chains, token \in StrategyTokens |->
        CHOOSE j \in (k+1)..6 :
            /\ Applies(j, chain, token)
            /\ \A i \in (k+1)..(j-1) : ~Applies(i, chain, token)]

\* the step of execution p returns `price`, having written exactly it
ReturnsWritten(p) ==
    LET k == <<proc'[p].chain, ToLowerCase(proc'[p].token)>>
    IN  /\ proc'[p].reqs = proc[p].reqs
        /\ tokenPriceCache' =
             (k :> [price |-> proc'[p].result, timestamp |-> now]) @@ tokenPriceCache

\* the step of execution p issues one request of strategy k and writes nothing
RequestsOf(p, k) ==
    /\ \E e \in EndpointsOf(k) : proc'[p].reqs = Append(proc[p].reqs, e)
    /\ tokenPriceCache' = tokenPriceCache

\* C21: on a cache miss for a non-native token the strategies are consulted in
\* the order Bungee list, LiFi list, known-contract feed, platform feed,
\* allow-list, 1.0: every step of the execution either stays in its strategy,
\* or returns the price of that strategy having written exactly it and having
\* issued no further request, or goes on to the next strategy that applies;
\* whatever a strategy is answered, nothing else happens.
C21_StrategyOrder ==
    [][ \A p \in Procs :
          ( /\ proc'[p] # proc[p]
            /\ ~IsNativeToken(proc'[p].token)
            /\ proc'[p].source # "cache" )
          => LET old == StrategyOf(proc[p])
                 new == StrategyOf(proc'[p])
                 chain == proc'[p].chain
                 token == proc'[p].token
             IN  /\ new \in 1..6
                 /\ proc[p].pc = "idle" => new = 1 /\ RequestsOf(p, 1)
                 /\ proc[p].pc # "idle" =>
                      /\ new = old \/ new = NextStrategy[old, chain, token]
                      /\ proc'[p].pc # "done" => RequestsOf(p, new)
                      /\ proc'[p].pc = "done" =>
                           /\ ReturnsWritten(p)
                           /\ new \in {5, 6} =>
                                new # old /\ proc'[p].result = Num(1)
      ]_vars

\* an unlisted contract on chain 1: both token lists and the platform feed were
\* asked in this order, the known-contract lookup did not apply, and the
\* platform feed's price is the result and the cache entry
C21_Witness ==
    \E p \in Procs :
        /\ proc[p].pc = "done" /\ proc[p].token = UNKNOWN_TOKEN /\ proc[p].chain = "1"
        /\ proc[p].source = "platform"
        /\ proc[p].reqs = <<"bungee_tokens_list", "lifi_tokens", "coingecko_token_price">>
        /\ tokenPriceCache[<<"1", UNKNOWN_TOKEN>>].price = proc[p].result
-----------------------------------------------------------------------------
(* The native branch (part_000:441-498) *)

TokenListEndpoints == {"bungee_tokens_list", "lifi_tokens"}
FeedEndpoints == {"coingecko_simple_price", "coingecko_token_price"}

\* the endpoints execution record pr has requested
Requested(pr) == { pr.reqs[i] : i \in 1..Len(pr.reqs) }

\* C22: for a native sentinel that missed the cache, on a chain of the static
\* tables the spot feed is the only endpoint requested, the result is the
\* feed's price whenever the feed answers with one and the static native price
\* of the chain whenever it does not; on a chain outside the tables no feed is
\* requested and the first request goes to the Bungee token list.
C22_Native ==
    \A p \in Procs :
        ( /\ proc[p].pc # "idle"
          /\ IsNativeToken(proc[p].token)
          /\ proc[p].source # "cache" )
        => IF proc[p].chain \in DOMAIN NativePrices
           THEN /\ proc[p].reqs = <<"coingecko_simple_price">>
                /\ proc[p].pc \in {"native", "done"}
                /\ proc[p].pc = "done" =>
                      \/ proc[p].source = "native_feed"
                      \/ /\ proc[p].source = "native_static"
                         /\ proc[p].result = Num(NativePrices[proc[p].chain])
                /\ proc[p].pc = "native" =>
                      \A r \in FeedResponses :
                          LET out == NativeOutcome(proc[p], r)
                              priced == r.kind = "ok" /\ Truthy(r.usd)
                          IN  /\ out.pc = "done" /\ out.reqs = proc[p].reqs
                              /\ priced => out.result = r.usd
                              /\ ~priced => out.result = Num(NativePrices[proc[p].chain])
           ELSE /\ Requested(proc[p]) \cap FeedEndpoints = {}
                /\ Requested(proc[p]) \subseteq TokenListEndpoints
                /\ proc[p].reqs[1] = "bungee_tokens_list"

\* the mixed-case sentinel on chain 1: the feed was asked, gave no price, and
\* the static 3800 is the result, with no token list requested
C22_Witness ==
    \E p \in Procs :
        /\ proc[p].pc = "done" /\ proc[p].token = E_MIXED /\ proc[p].chain = "1"
        /\ proc[p].source = "native_static" /\ proc[p].result = Num(3800)
        /\ proc[p].reqs = <<"coingecko_simple_price">>

-----------------------------------------------------------------------------
(* The cached fallback (part_000:479-497, 715-725, 429-436) *)

FallbackSources == {"fallback", "native_static"}

\* C30: a call that ends with the 1.0 fallback or the static native price has
\* stored that price with the time of the write; a call for the same chain and
\* token that starts less than 5 minutes after such a write returns the stored
\* fallback and issues no request, whatever the upstreams would answer.
C30_FallbackCached ==
    [][ /\ \A p \in Procs :
              (ReturnsOnMiss(p) /\ proc'[p].source \in FallbackSources)
              => LET k == <<proc'[p].chain, ToLowerCase(proc'[p].token)>>
                 IN  /\ proc'[p].result =
                           IF proc'[p].source = "fallback" THEN Num(1)
                           ELSE Num(NativePrices[proc'[p].chain])
                     /\ k \in DOMAIN tokenPriceCache'
                     /\ tokenPriceCache'[k] = [price |-> proc'[p].result, timestamp |-> now]
        /\ ( /\ Starts("b")
             /\ proc["a"].source \in FallbackSources
             /\ now - tokenPriceCache[<<proc["a"].chain, ToLowerCase(proc["a"].token)>>].timestamp
                  < PRICE_CACHE_DURATION )
           => /\ proc'["b"].pc = "done"
              /\ proc'["b"].result = proc["a"].result
              /\ proc'["b"].reqs = <<>>
              /\ tokenPriceCache' = tokenPriceCache
      ]_vars

\* an unlisted contract got the 1.0 fallback; two and a half minutes later the
\* same contract was priced 1.0 from the cache without a request
C30_Witness ==
    /\ proc["a"].pc = "done" /\ proc["a"].token = UNKNOWN_TOKEN
    /\ proc["a"].source = "fallback" /\ proc["a"].result = Num(1)
    /\ proc["b"].pc = "done" /\ proc["b"].token = UNKNOWN_TOKEN
    /\ proc["b"].source = "cache" /\ proc["b"].result = Num(1)
    /\ proc["b"].reqs = <<>>
    /\ now > tokenPriceCache[<<proc["a"].chain, UNKNOWN_TOKEN>>].timestamp

-----------------------------------------------------------------------------
(* Cache entries under overlapping executions (part_000:422-436, 546-561) *)

\* C25: executions interleave at their awaits only, and each write replaces the
\* whole entry: whenever an entry appears or changes, one execution returned in
\* that step after a miss for that key, no other execution moved, and the entry
\* is that execution's price together with the time of that very step; all
\* other entries are as they were and none disappears.
C25_WholeEntries ==
    [][ /\ DOMAIN tokenPriceCache \subseteq DOMAIN tokenPriceCache'
        /\ \A k \in DOMAIN tokenPriceCache' :
              (k \notin DOMAIN tokenPriceCache \/ tokenPriceCache'[k] # tokenPriceCache[k])
              => /\ DOMAIN tokenPriceCache'[k] = {"price", "timestamp"}
                 /\ \E p \in Procs :
                       /\ ReturnsOnMiss(p)
                       /\ k = <<proc'[p].chain, ToLowerCase(proc'[p].token)>>
                       /\ tokenPriceCache'[k].price = proc'[p].result
                       /\ tokenPriceCache'[k].timestamp = now
                       /\ \A o \in Procs \ {p} : proc'[o] = proc[o]
                 /\ \A j \in DOMAIN tokenPriceCache \ {k} :
                       tokenPriceCache'[j] = tokenPriceCache[j]
      ]_vars

\* both executions missed the cache for USDT on chain 1 and resolved different
\* prices; the entry is the later write as a whole: its price and its time
C25_Witness ==
    /\ proc["a"].pc = "done" /\ proc["b"].pc = "done"
    /\ proc["a"].source \notin {"cache", ""} /\ proc["b"].source \notin {"cache", ""}
    /\ ToLowerCase(proc["a"].token) = USDT /\ ToLowerCase(proc["b"].token) = USDT
    /\ proc["a"].result # proc["b"].result
    /\ now > 0
    /\ tokenPriceCache[<<"1", USDT>>] = [price |-> proc["b"].result, timestamp |-> now]

\* execution p has missed the cache and is suspended at a request to an upstream
Resolving(p) == proc[p].pc \notin {"idle", "done"}

\* C28 as stated: of two executions that resolve the same chain and token at
\* the same time after a miss, at most one has a request to an upstream under
\* way; the other waits for its result and is served from the cache.
C28_OneResolver ==
    \A p, o \in Procs :
        ( /\ p # o
          /\ proc[p].chain = proc[o].chain
          /\ ToLowerCase(proc[p].token) = ToLowerCase(proc[o].token) )
        => ~(Resolving(p) /\ Resolving(o))

-----------------------------------------------------------------------------
(* Quotes: amounts, formatting, error classification *)

MaxRoutes == 2       \* manual routes per quote response

DEFAULT_DECIMALS == 18

\* an amount field of a quote response: absent, the string "0", or a positive
\* decimal integer string m * 10^e
AmtUndef == [k |-> "undef", m |-> 0, e |-> 0]
AmtZero == [k |-> "zero", m |-> 0, e |-> 0]
Dec(m, e) == [k |-> "dec", m |-> Big(m, e).m, e |-> Big(m, e).e]

AmtTruthy(a) == a.k # "undef"           \* a non-empty string is truthy, "0" too
ParseFloat(a) == Big(a.m, a.e)

\* m / 10^g rounded to the nearest integer (m is below 10^10)
ScaleDown(m, g) == IF g > 9 THEN 0 ELSE RoundDiv(m, Pow10(g))

\* A plausible slip: the amount is cut to `places` decimals instead of rounded.
ToFixedTruncating(value, decimals, places) ==
    LET x == value.e + places - decimals
    IN  IF x >= 0 THEN DecStr(Big(value.m, x), places)
        ELSE DecStr(Big(IF -x > 9 THEN 0 ELSE value.m \div Pow10(-x), 0), places)

\* (value / Math.pow(10, decimals)).toFixed(places)
ToFixed(value, decimals, places) ==
    LET x == value.e + places - decimals
    IN  IF x >= 0 THEN DecStr(Big(value.m, x), places)
        ELSE DecStr(Big(ScaleDown(value.m, -x), 0), places)

ZeroOutput == DecStr(Big(0, 0), 4)      \* "0.0000"
ZeroInput == DecStr(Big(0, 0), 0)       \* "0"

\* an error text, with the HTTP status where the code writes it into the text
Err(msg, code) == [msg |-> msg, code |-> code]
NoError == Err("", 0)                   \* the quote has no error field

Label(name, suffix) == [name |-> name, suffix |-> suffix]

Quote(outputAmount, provider, error, inputTokenAmount, tokenPrice) ==
    [outputAmount |-> outputAmount, provider |-> provider, error |-> error,
     inputTokenAmount |-> inputTokenAmount, tokenPrice |-> tokenPrice]

\* the message field of an error body; NonString is a message that is no string
NonString == "<not a string>"
Messages == {"", "No available quotes for this route", "Price impact too high",
             "isBigNumberish check failed", "invalid BigNumberish value",
             "fromAmount is required", "internal error", NonString}

\* message.includes(pattern), for a string message
Includes(message, pattern) ==
    CASE pattern = "No available quotes" -> message = "No available quotes for this route"
      [] pattern = "Price impact" -> message = "Price impact too high"
      [] pattern = "isBigNumberish" -> message = "isBigNumberish check failed"
      [] pattern = "BigNumberish" ->
            message \in {"isBigNumberish check failed", "invalid BigNumberish value"}
      [] pattern = "fromAmount" -> message = "fromAmount is required"
      [] OTHER -> FALSE

\* error bodies: text that is no JSON, the JSON null, or an object with a message
ErrorBodies ==
    { [json |-> "no", message |-> ""], [json |-> "null", message |-> ""] }
    \cup { [json |-> "object", message |-> msg] : msg \in Messages }

Statuses == {429, 404, 400, 500, 503, 502}

\* getLiFiQuote, catch (parseError) branch (882-890)
LifiStatusError(status) ==
    CASE status = 429 -> Err("Rate limited", 0)
      [] status = 404 -> Err("No routes found", 0)
      [] status = 400 -> Err("Bad request", 0)
      [] status = 500 -> Err("Server error", status)
      [] status = 503 -> Err("Service unavailable", status)
      [] OTHER -> Err("Error", status)

\* getLiFiQuote, 854-890: JSON.parse throws on text that is no JSON; reading
\* .message of null (859) and calling .includes of a non-string throw as well
LifiUserError(status, body) ==
    IF body.json # "object" THEN LifiStatusError(status)
    ELSE CASE status = 429 -> Err("Rate limited - please wait", 0)
           [] status = 404 ->
                IF body.message = NonString THEN LifiStatusError(status)
                ELSE IF Includes(body.message, "No available quotes")
                     THEN Err("No routes available", 0)
                ELSE IF Includes(body.message, "Price impact")
                     THEN Err("Amount too large", 0)
                ELSE Err("Route not found", 0)
           [] status = 400 ->
                IF body.message = NonString THEN LifiStatusError(status)
                ELSE IF Includes(body.message, "isBigNumberish")
                     THEN Err("Invalid amount format", 0)
                ELSE Err("Invalid request", 0)
           [] status = 500 -> Err("Server error", status)
           [] status = 503 -> Err("Service unavailable", status)
           [] OTHER -> Err("Service unavailable", status)

\* getBungeeQuotesBoth / getBungeeQuote, catch (parseError) branch (1093-1098, 1409-1415)
BungeeStatusError(status) ==
    CASE status = 429 -> Err("Rate limited", 0)
      [] status = 400 -> Err("Bad request", 0)
      [] status = 404 -> Err("Not found", 0)
      [] status = 500 -> Err("Server error", 0)
      [] OTHER -> Err("Service unavailable", 0)

\* A plausible slip: the 429 test is missing from the branch for parsed bodies.
BungeeUserErrorNo429(status, body) ==
    IF body.json = "no" THEN BungeeStatusError(status)
    ELSE CASE status = 404 -> Err("Route not available", 0)
           [] OTHER -> Err("Service unavailable", 0)

\* getBungeeQuotesBoth / getBungeeQuote, 1071-1098 and 1387-1415
BungeeUserError(status, body) ==
    IF body.json = "no" THEN BungeeStatusError(status)
    ELSE CASE status = 429 -> Err("Rate limited - please wait", 0)
           [] status = 400 ->
                IF body.json = "null" \/ body.message = NonString
                THEN BungeeStatusError(status)
                ELSE IF Includes(body.message, "BigNumberish")
                     THEN Err("Invalid amount format", 0)
                ELSE IF Includes(body.message, "fromAmount")
                     THEN Err("Amount validation failed", 0)
                ELSE Err("Invalid request parameters", 0)
           [] status = 404 -> Err("Route not available", 0)
           [] status = 500 ->
                IF body.json = "null" \/ body.message = NonString
                THEN BungeeStatusError(status)
                ELSE IF Includes(body.message, "BigNumberish")
                     THEN Err("Amount processing error", 0)
                ELSE Err("Server error", 0)
           [] OTHER -> Err("Service unavailable", 0)

-----------------------------------------------------------------------------
(* Quotes: the calls, the token lists and the quote responses of the model *)

Adapters == {"getLiFiQuote", "getBungeeQuotesBoth", "getBungeeQuote"}

FROM_CHAIN == "1"
TO_CHAIN == "137"
QuoteFromTokens == {ZERO_ADDRESS, E_MIXED, USDT}
QuoteToTokens == {USDT_MIXED, E_LOWER}
UsdAmounts == {Num(0), Num(-7), Num(7), Infinity, NaN}
FromTokenPrices == {Undef, Num(0), Num(-5), Num(3)}

\* token lists for the decimals lookup; a decimals field of 0 is falsy
DecimalsFields == {0, 2, 6}

DecimalsEntries(chain) ==
    { Entry(chain, a, "", d, Undef) :
        a \in {ZERO_ADDRESS, E_MIXED, USDT_MIXED}, d \in DecimalsFields }

DecimalsBodies ==
    {<<>>} \cup { <<e>> : e \in DecimalsEntries(FROM_CHAIN) \cup DecimalsEntries(TO_CHAIN) }
           \cup { <<e1, e2>> : e1 \in DecimalsEntries(FROM_CHAIN),
                               e2 \in DecimalsEntries(TO_CHAIN) }

\* a route of a Bungee quote: output is "the route has an output object",
\* amount is output.amount, alt the first of outputAmount / toAmount /
\* returnAmount that is present, bridge the name the route carries ("" = none)
Route(output, amount, alt, bridge) ==
    [exists |-> TRUE, output |-> output, amount |-> amount, alt |-> alt, bridge |-> bridge]

NoRoute == [exists |-> FALSE, output |-> FALSE, amount |-> AmtUndef, alt |-> AmtUndef,
            bridge |-> ""]

OutputAmounts == {AmtZero, Dec(1, 0), Dec(5, 17), Dec(7, 17)}

AutoRoutes ==
    {NoRoute, Route(FALSE, AmtUndef, AmtUndef, "across"),
     Route(TRUE, AmtUndef, AmtUndef, "across"), Route(TRUE, Dec(5, 17), AmtUndef, "")}
    \cup { Route(TRUE, a, AmtUndef, "across") : a \in OutputAmounts }

BridgeName(i) == CASE i = 1 -> "stargate" [] i = 2 -> "hop" [] OTHER -> "cctp"

ManualRouteKinds ==
    { [output |-> FALSE, amount |-> AmtUndef] }
    \cup { [output |-> TRUE, amount |-> a] : a \in OutputAmounts }

ManualLists ==
    UNION { { [i \in 1..n |-> Route(f[i].output, f[i].amount, AmtUndef, BridgeName(i))] :
                f \in [1..n -> ManualRouteKinds] } : n \in 0..MaxRoutes }

LegacyLists ==
    { <<>>, <<Route(TRUE, Dec(5, 17), AmtUndef, "legacy")>>,
      <<Route(FALSE, AmtUndef, Dec(5, 17), "legacy")>>,
      <<Route(FALSE, AmtUndef, AmtUndef, "legacy")>> }

\* bodies of a Bungee quote response with status 2xx: null, success false,
\* no result, or a result with routes
BungeeFailureData ==
    { [null |-> TRUE, success |-> FALSE, message |-> "", hasResult |-> FALSE,
       autoRoute |-> NoRoute, manualRoutes |-> <<>>, routes |-> <<>>],
      [null |-> FALSE, success |-> TRUE, message |-> "", hasResult |-> FALSE,
       autoRoute |-> NoRoute, manualRoutes |-> <<>>, routes |-> <<>>] }
    \cup { [null |-> FALSE, success |-> FALSE, message |-> msg, hasResult |-> FALSE,
            autoRoute |-> NoRoute, manualRoutes |-> <<>>, routes |-> <<>>] :
              msg \in {"", "internal error"} }

BungeeRouteData(legacy) ==
    { [null |-> FALSE, success |-> TRUE, message |-> "", hasResult |-> TRUE,
       autoRoute |-> a, manualRoutes |-> m, routes |-> l] :
         a \in AutoRoutes, m \in ManualLists, l \in legacy }

BungeeQuotesBothData == BungeeFailureData \cup BungeeRouteData({<<>>})
BungeeQuoteData == BungeeFailureData \cup BungeeRouteData(LegacyLists)

\* bodies of a LiFi quote response with status 2xx
LifiData ==
    { [null |-> TRUE, estimate |-> FALSE, transactionRequest |-> FALSE,
       estToAmount |-> AmtUndef, toAmount |-> AmtUndef, message |-> "", tool |-> ""] }
    \cup { [null |-> FALSE, estimate |-> FALSE, transactionRequest |-> tx,
            estToAmount |-> AmtUndef, toAmount |-> ta, message |-> msg, tool |-> tool] :
              tx \in BOOLEAN, ta \in {AmtUndef, Dec(263, 7)},
              msg \in {"", "internal error"}, tool \in {"", "across"} }
    \cup { [null |-> FALSE, estimate |-> TRUE, transactionRequest |-> tx,
            estToAmount |-> ea, toAmount |-> ta, message |-> msg, tool |-> tool] :
              tx \in BOOLEAN, ea \in {AmtUndef, Dec(263, 7), Dec(7, 15)} \cup OutputAmounts,
              ta \in {AmtUndef, Dec(263, 7)},
              msg \in {"", "internal error"}, tool \in {"", "across"} }

-----------------------------------------------------------------------------
(* The quote adapters (part_000:761-964, 966-1280, 1282-1634).  One call runs  *)
(* at a time; q holds its arguments and the locals that live across its two   *)
(* awaits (pc "tokens": the token-list fetch, pc "quote": the quote fetch),   *)
(* reqs (the requests it has sent) and, once it has returned, result: the     *)
(* returned quotes by name ("quote", or "auto" and "manual").                 *)

IsLiFi(fn) == fn = "getLiFiQuote"

\* A plausible slip: one number of decimal places for every adapter.
OutputPlacesUniform(fn) == 4

\* the argument of toFixed on the success paths: .toFixed(2) in getLiFiQuote
\* (933), .toFixed(4) in getBungeeQuotesBoth (1157, 1214) and getBungeeQuote (1575)
OutputPlaces(fn) == IF IsLiFi(fn) THEN 2 ELSE 4

TokenListEndpoint(fn) ==
    IF IsLiFi(fn) THEN "https://li.quest/v1/tokens"
    ELSE "https://public-backend.bungee.exchange/api/v1/tokens/list"

QuoteEndpoint(fn) ==
    IF IsLiFi(fn) THEN "https://li.quest/v1/quote"
    ELSE "https://public-backend.bungee.exchange/api/v1/bungee/quote"

HttpRequest(url, fromToken, toToken, amount) ==
    [url |-> url, fromToken |-> fromToken, toToken |-> toToken, amount |-> amount]

NoAmount == [k |-> "nan", n |-> 0, d |-> 1]

\* what the quote endpoint answered: the HTTP status with the error body, or
\* status 200 with the parsed body in data (status 0: no response was read)
NoResponse == [status |-> 0, body |-> [json |-> "", message |-> ""]]
NoData == [null |-> TRUE]
Answered(call, status, body, data) ==
    [call EXCEPT !.response = [status |-> status, body |-> body], !.data = data]

\* fromTokenInfo.decimals || 18 of the token found in the list, else the initial 18
TokenDecimals(r, chain, token) ==
    LET info == FindByAddress(ChainTokens(r.body, chain), ToLowerCase(token))
    IN  IF r.kind = "ok" /\ Found(info) /\ info.decimals # 0
        THEN info.decimals
        ELSE DEFAULT_DECIMALS

ResultOf(fn, quote) ==
    IF fn = "getBungeeQuotesBoth" THEN ("auto" :> quote @@ "manual" :> quote)
    ELSE ("quote" :> quote)

ErrorQuote(fn, error, inputTokenAmount, tokenPrice) ==
    Quote(ZeroOutput, Label(IF IsLiFi(fn) THEN "LiFi" ELSE "Bungee", ""), error,
          inputTokenAmount, tokenPrice)

Finish(call, result) == [call EXCEPT !.pc = "done", !.result = result]

\* error.message of what the fetch or the body parser threw
ThrownMessage(kind) ==
    CASE kind = "throw" -> "fetch failed"
      [] kind = "badjson" -> "Unexpected token < in JSON at position 0"
      [] OTHER -> "Cannot read properties of null (reading 'success')"

\* the locals of an adapter at its first await, the token-list fetch; thrown
\* is "the call ended by throwing to its caller"
NewCall(fn, fromToken, toToken, usdAmount, fromTokenPrice) ==
    [pc |-> "tokens", fn |-> fn,
     fromChain |-> FROM_CHAIN, toChain |-> TO_CHAIN,
     fromToken |-> fromToken, toToken |-> toToken,
     usdAmount |-> usdAmount, fromTokenPrice |-> fromTokenPrice,
     reqFromToken |-> NormalizeTokenAddress(fromToken, IsLiFi(fn)),
     reqToToken |-> NormalizeTokenAddress(toToken, IsLiFi(fn)),
     fromTokenDecimals |-> DEFAULT_DECIMALS,
     toTokenDecimals |-> DEFAULT_DECIMALS,
     tokenPrice |-> Undef, tokenAmount |-> NoAmount,
     reqs |-> <<HttpRequest(TokenListEndpoint(fn), "", "", Big(0, 0))>>,
     response |-> NoResponse, data |-> NoData,
     thrown |-> FALSE,
     result |-> <<>>]

\* from the token-list response r to the quote fetch, or to the "Invalid amount" return
AfterTokenList(call, r) ==
    LET fromTokenDecimals == TokenDecimals(r, call.fromChain, call.reqFromToken)
        toTokenDecimals == TokenDecimals(r, call.toChain, call.reqToToken)
        tokenPrice == TokenPriceOf(call.fromTokenPrice)
        tokenAmount == TokenAmountOf(call.usdAmount, tokenPrice)
        next == [call EXCEPT !.fromTokenDecimals = fromTokenDecimals,
                             !.toTokenDecimals = toTokenDecimals,
                             !.tokenPrice = tokenPrice,
                             !.tokenAmount = tokenAmount]
    IN  IF InvalidTokenAmount(tokenAmount)
        THEN Finish(next, ResultOf(call.fn,
                        ErrorQuote(call.fn, Err("Invalid amount", 0), ZeroInput, tokenPrice)))
        ELSE [next EXCEPT !.pc = "quote",
                          !.reqs = Append(@, HttpRequest(QuoteEndpoint(call.fn),
                                      call.reqFromToken, call.reqToToken,
                                      ToBaseUnits(tokenAmount, fromTokenDecimals)))]

\* A plausible slip: no outer try/catch, what the fetch throws reaches the caller.
OuterCatchMissing(call, kind) == [call EXCEPT !.pc = "done", !.thrown = TRUE]

\* the outer catch (952-963, 1266-1279, 1622-1633): what the quote fetch or
\* response.json() threw becomes an error quote
OuterCatch(call, kind) ==
    Finish(call, ResultOf(call.fn,
              ErrorQuote(call.fn, Err(ThrownMessage(kind), 0), ZeroInput, Num(0))))

\* the quote response has response.ok false (850-902, 1067-1111, 1383-1427)
AfterHttpError(call, status, body) ==
    LET userFriendlyError == IF IsLiFi(call.fn) THEN LifiUserError(status, body)
                             ELSE BungeeUserError(status, body)
    IN  Finish(Answered(call, status, body, NoData), ResultOf(call.fn,
            ErrorQuote(call.fn, userFriendlyError, ToFixed6(call.tokenAmount),
                       call.tokenPrice)))

\* entry of an adapter up to its first await
QuoteCall ==
    /\ q.pc = "idle"
    /\ \E fn \in Adapters, fromToken \in QuoteFromTokens, toToken \in QuoteToTokens,
          usdAmount \in UsdAmounts, fromTokenPrice \in FromTokenPrices :
       q' = NewCall(fn, fromToken, toToken, usdAmount, fromTokenPrice)
    /\ UNCHANGED <<tokenPriceCache, now, proc, conv, swapProviders, req>>

TokenListResponse ==
    /\ q.pc = "tokens"
    /\ \E r \in ListResponses(DecimalsBodies) : q' = AfterTokenList(q, r)
    /\ UNCHANGED <<tokenPriceCache, now, proc, conv, swapProviders, req>>

\* the quote fetch rejects, or response.json() rejects
QuoteFetchFails ==
    /\ q.pc = "quote"
    /\ \E kind \in {"throw", "badjson"} : q' = OuterCatch(q, kind)
    /\ UNCHANGED <<tokenPriceCache, now, proc, conv, swapProviders, req>>

QuoteHttpError ==
    /\ q.pc = "quote"
    /\ \E status \in Statuses, body \in ErrorBodies : q' = AfterHttpError(q, status, body)
    /\ UNCHANGED <<tokenPriceCache, now, proc, conv, swapProviders, req>>

\* data.message || data.error || fallback
MessageOr(data, fallback) ==
    Err(IF ~data.null /\ data.message # "" THEN data.message ELSE fallback, 0)

\* getLiFiQuote, 904-951
LifiQuote(call, data) ==
    LET inputTokenAmount == ToFixed6(call.tokenAmount)
        toAmount == IF data.estimate /\ AmtTruthy(data.estToAmount) THEN data.estToAmount
                    ELSE IF AmtTruthy(data.toAmount) THEN data.toAmount
                    ELSE AmtZero
        toolName == IF data.tool # "" THEN data.tool ELSE "LiFi Bridge"
    IN  IF data.null \/ (~data.estimate /\ ~data.transactionRequest)
        THEN ErrorQuote(call.fn, MessageOr(data, "No routes found"),
                        inputTokenAmount, call.tokenPrice)
        ELSE IF toAmount = AmtZero
        THEN ErrorQuote(call.fn, MessageOr(data, "Insufficient liquidity"),
                        inputTokenAmount, call.tokenPrice)
        ELSE Quote(ToFixed(ParseFloat(toAmount), call.toTokenDecimals, OutputPlaces(call.fn)),
                   Label(toolName, ""), NoError, inputTokenAmount, call.tokenPrice)

LifiQuoteResponse ==
    /\ q.pc = "quote"
    /\ IsLiFi(q.fn)
    /\ \E data \in LifiData :
       q' = Finish(Answered(q, 200, NoResponse.body, data),
                   ResultOf(q.fn, LifiQuote(q, data)))
    /\ UNCHANGED <<tokenPriceCache, now, proc, conv, swapProviders, req>>

\* the loop over manualRoutes (1200-1210, 1493-1503), from route i on
RECURSIVE BestManualFrom(_, _, _, _)
BestManualFrom(routes, i, bestManualRoute, bestOutputAmount) ==
    IF i > Len(routes)
    THEN [route |-> bestManualRoute, amount |-> bestOutputAmount]
    ELSE LET route == routes[i]
             outputAmount == ParseFloat(route.amount)
         IN  IF route.output /\ AmtTruthy(route.amount)
                /\ BigGt(outputAmount, bestOutputAmount)
             THEN BestManualFrom(routes, i + 1, route, outputAmount)
             ELSE BestManualFrom(routes, i + 1, bestManualRoute, bestOutputAmount)

\* A plausible slip: the first route that has an output amount is taken.
BestManualFirst(routes) ==
    LET idx == { i \in 1..Len(routes) : routes[i].output /\ routes[i].amount.k = "dec" }
        first == CHOOSE i \in idx : \A j \in idx : i <= j
    IN  IF idx = {} THEN [route |-> NoRoute, amount |-> Big(0, 0)]
        ELSE [route |-> routes[first], amount |-> ParseFloat(routes[first].amount)]

\* A plausible slip: >= in place of >, the last of the routes with the largest
\* output is taken, and a route with output "0" when no route has more.
BestManualLast(routes) ==
    LET idx == { i \in 1..Len(routes) : routes[i].output /\ AmtTruthy(routes[i].amount) }
        top == { i \in idx : \A j \in idx :
                    ~BigGt(ParseFloat(routes[j].amount), ParseFloat(routes[i].amount)) }
        last == CHOOSE i \in top : \A j \in top : j <= i
    IN  IF idx = {} THEN [route |-> NoRoute, amount |-> Big(0, 0)]
        ELSE [route |-> routes[last], amount |-> ParseFloat(routes[last].amount)]

\* let bestManualRoute = null; let bestOutputAmount = 0; for (...) {...}
BestManual(routes) == BestManualFrom(routes, 1, NoRoute, Big(0, 0))

\* getBungeeQuotesBoth, 1146-1182
AutoQuote(call, result) ==
    LET autoRoute == result.autoRoute
        bridgeName == IF autoRoute.bridge # "" THEN Label(autoRoute.bridge, "(Auto)")
                      ELSE Label("Bungee Auto", "")
    IN  IF autoRoute.exists /\ autoRoute.output /\ AmtTruthy(autoRoute.amount)
        THEN Quote(ToFixed(ParseFloat(autoRoute.amount), call.toTokenDecimals,
                           OutputPlaces(call.fn)),
                   bridgeName, NoError, ToFixed6(call.tokenAmount), call.tokenPrice)
        ELSE Quote(ZeroOutput, Label("Bungee Auto", ""), Err("No auto route", 0),
                   ToFixed6(call.tokenAmount), call.tokenPrice)

\* getBungeeQuotesBoth, 1185-1262
ManualQuote(call, result) ==
    LET best == BestManual(result.manualRoutes)
        displayProviderName == IF best.route.bridge # "" THEN best.route.bridge
                               ELSE "Bungee Manual"
    IN  IF Len(result.manualRoutes) > 0 /\ best.route.exists
        THEN Quote(ToFixed(best.amount, call.toTokenDecimals, OutputPlaces(call.fn)),
                   Label(displayProviderName, ""), NoError,
                   ToFixed6(call.tokenAmount), call.tokenPrice)
        ELSE Quote(ZeroOutput, Label("Bungee Manual", ""), Err("No manual routes", 0),
                   ToFixed6(call.tokenAmount), call.tokenPrice)

\* getBungeeQuotesBoth, 1113-1279; reading data.success of null throws
BungeeQuotesBoth(call, data) ==
    LET inputTokenAmount == ToFixed6(call.tokenAmount)
    IN  IF data.null
        THEN ResultOf(call.fn, ErrorQuote(call.fn, Err(ThrownMessage("null"), 0),
                                          ZeroInput, Num(0)))
        ELSE IF ~data.success
        THEN ResultOf(call.fn, ErrorQuote(call.fn, MessageOr(data, "Quote failed"),
                                          inputTokenAmount, call.tokenPrice))
        ELSE IF ~data.hasResult
        THEN ResultOf(call.fn, ErrorQuote(call.fn, Err("No quote available", 0),
                                          inputTokenAmount, call.tokenPrice))
        ELSE ("auto" :> AutoQuote(call, data) @@ "manual" :> ManualQuote(call, data))

BungeeQuotesBothResponse ==
    /\ q.pc = "quote"
    /\ q.fn = "getBungeeQuotesBoth"
    /\ \E data \in BungeeQuotesBothData :
       q' = Finish(Answered(q, 200, NoResponse.body, data), BungeeQuotesBoth(q, data))
    /\ UNCHANGED <<tokenPriceCache, now, proc, conv, swapProviders, req>>

\* A plausible slip: a manual route with a higher output replaces the autoRoute.
BestRouteHighest(result) ==
    LET best == BestManual(result.manualRoutes)
    IN  IF result.autoRoute.exists /\ result.autoRoute.output
        THEN IF best.route.exists /\ BigGt(best.amount, ParseFloat(result.autoRoute.amount))
             THEN best.route ELSE result.autoRoute
        ELSE IF Len(result.manualRoutes) > 0 THEN best.route
        ELSE IF Len(result.routes) > 0 THEN result.routes[1]
        ELSE NoRoute

\* getBungeeQuote, 1475-1516: autoRoute, else the best manual route, else routes[0]
BestRoute(result) ==
    IF result.autoRoute.exists /\ result.autoRoute.output THEN result.autoRoute
    ELSE IF Len(result.manualRoutes) > 0 THEN BestManual(result.manualRoutes).route
    ELSE IF Len(result.routes) > 0 THEN result.routes[1]
    ELSE NoRoute

\* getBungeeQuote, 1429-1633
BungeeQuote(call, data) ==
    LET inputTokenAmount == ToFixed6(call.tokenAmount)
        bestRoute == BestRoute(data)
        outputAmountStr ==
            IF bestRoute.output /\ AmtTruthy(bestRoute.amount) THEN bestRoute.amount
            ELSE IF AmtTruthy(bestRoute.alt) THEN bestRoute.alt
            ELSE AmtZero
        bridgeName == IF bestRoute.bridge # "" THEN bestRoute.bridge ELSE "Bungee"
    IN  IF data.null
        THEN ErrorQuote(call.fn, Err(ThrownMessage("null"), 0), ZeroInput, Num(0))
        ELSE IF ~data.success
        THEN ErrorQuote(call.fn, MessageOr(data, "Quote failed"),
                        inputTokenAmount, call.tokenPrice)
        ELSE IF ~data.hasResult
        THEN ErrorQuote(call.fn, Err("No quote available", 0),
                        inputTokenAmount, call.tokenPrice)
        ELSE IF ~bestRoute.exists
        THEN ErrorQuote(call.fn, Err("No routes found", 0),
                        inputTokenAmount, call.tokenPrice)
        ELSE IF outputAmountStr = AmtZero
        THEN ErrorQuote(call.fn, Err("No output amount", 0),
                        inputTokenAmount, call.tokenPrice)
        ELSE Quote(ToFixed(ParseFloat(outputAmountStr), call.toTokenDecimals,
                           OutputPlaces(call.fn)),
                   Label(bridgeName, ""), NoError, inputTokenAmount, call.tokenPrice)

BungeeQuoteResponse ==
    /\ q.pc = "quote"
    /\ q.fn = "getBungeeQuote"
    /\ \E data \in BungeeQuoteData :
       q' = Finish(Answered(q, 200, NoResponse.body, data),
                   ResultOf(q.fn, BungeeQuote(q, data)))
    /\ UNCHANGED <<tokenPriceCache, now, proc, conv, swapProviders, req>>

InitQuote ==
    /\ tokenPriceCache = EmptyCache
    /\ now = 0
    /\ proc = [p \in Procs |-> IdleProc]
    /\ q = NoCall
    /\ conv = NoConv
    /\ swapProviders = DefaultProviders
    /\ req = NoRequest

NextQuote ==
    \/ QuoteCall
    \/ TokenListResponse
    \/ QuoteFetchFails
    \/ QuoteHttpError
    \/ LifiQuoteResponse
    \/ BungeeQuotesBothResponse
    \/ BungeeQuoteResponse

SpecQuote == InitQuote /\ [][NextQuote]_vars

-----------------------------------------------------------------------------
(* The provider store (storage.ts:14-103).  swapProviders is the Map in      *)
(* insertion order; a record is replaced, never mutated, so an array read    *)
(* earlier keeps the records it read.  A method is a function from the Map   *)
(* and its arguments to the returned value and the Map after the call.       *)

MaxProviders == 3
\* names a POST /api/providers body may carry (schema.ts: any string of 1..255)
ProviderNames == {"LiFi", "Custom"}

\* ids a caller may pass: 0 and the ids not yet handed out are unknown to the Map
StoreIds == 0..(MaxProviders + 1)

\* updates: Partial<InsertSwapProvider> (schema.ts:9-13, 31): no field, or a name
Updates == { [has |-> FALSE, name |-> ""] } \cup { [has |-> TRUE, name |-> n] : n \in ProviderNames }

\* undefined, where a provider is expected
NoProvider == SwapProvider(0, "", FALSE)

\* storage.ts:67-69
GetAllSwapProviders(providers) == SelectSeq(providers, LAMBDA provider : provider.isActive)

\* this.swapProviders.get(id): the position of the record with this key, 0 for none
PositionOf(providers, id) ==
    LET at == { i \in 1..Len(providers) : providers[i].id = id }
    IN  IF at = {} THEN 0 ELSE CHOOSE i \in at : TRUE

\* storage.ts:71-73
GetSwapProvider(providers, id) ==
    IF PositionOf(providers, id) = 0 THEN NoProvider ELSE providers[PositionOf(providers, id)]

\* storage.ts:86-93: { ...existing, ...updates } under the same key
UpdateSwapProviderCall(providers, id, updates) ==
    LET at == PositionOf(providers, id)
        updated == IF updates.has THEN [providers[at] EXCEPT !.name = updates.name]
                                  ELSE providers[at]
    IN  IF at = 0 THEN [ret |-> NoProvider, store |-> providers]
        ELSE [ret |-> updated, store |-> [providers EXCEPT ![at] = updated]]

\* A plausible slip: the record is removed from the Map.
DeleteSwapProviderHard(providers, id) ==
    IF PositionOf(providers, id) = 0 THEN [ret |-> FALSE, store |-> providers]
    ELSE [ret |-> TRUE, store |-> SelectSeq(providers, LAMBDA provider : provider.id # id)]

\* storage.ts:95-103: { ...existing, isActive: false } under the same key
DeleteSwapProviderCall(providers, id) ==
    LET at == PositionOf(providers, id)
    IN  IF at = 0 THEN [ret |-> FALSE, store |-> providers]
        ELSE [ret |-> TRUE, store |-> [providers EXCEPT ![at].isActive = FALSE]]

\* storage.ts:75-84: a new id, isActive true, no test of the name
CreateSwapProvider ==
    /\ Len(swapProviders) < MaxProviders
    /\ \E name \in ProviderNames :
       swapProviders' = Append(swapProviders,
                               SwapProvider(Len(swapProviders) + 1, name, TRUE))
    /\ UNCHANGED <<tokenPriceCache, now, proc, q, conv, req>>

\* storage.ts:86-93
UpdateSwapProvider ==
    /\ \E id \in StoreIds, updates \in Updates :
       swapProviders' = UpdateSwapProviderCall(swapProviders, id, updates).store
    /\ UNCHANGED <<tokenPriceCache, now, proc, q, conv, req>>

\* storage.ts:95-103
DeleteSwapProvider ==
    /\ \E id \in StoreIds :
       swapProviders' = DeleteSwapProviderCall(swapProviders, id).store
    /\ UNCHANGED <<tokenPriceCache, now, proc, q, conv, req>>

-----------------------------------------------------------------------------
(* POST /api/quotes (part_000:278-339) and formatAmountKey (345-350).        *)
(*                                                                           *)
(* The amounts of a request are whole numbers of dollars: lo alone, or       *)
(* 9007199254740000 + lo (hi = 1), which is below 2^53 for lo <= 991, so     *)
(* every amount of the model is a double exactly.  An adapter call is         *)
(* followed through its outcome only (the adapters themselves are SpecQuote): *)
(* the cells of the matrix keep outputAmount, provider and error of a quote.  *)

Amt(hi, lo) == [hi |-> hi, lo |-> lo]
AmtLess(a, b) == a.hi < b.hi \/ (a.hi = b.hi /\ a.lo < b.lo)

BaseAmounts == <<Amt(0, 1000), Amt(0, 7000), Amt(0, 30000), Amt(0, 120000)>>

\* req.body.amounts: absent, an array of numbers, or something zod rejects
Body(kind, amounts) == [kind |-> kind, amounts |-> amounts]
RequestBodies ==
    { Body("absent", <<>>), Body("malformed", <<>>),
      Body("array", <<Amt(0, 1500), Amt(0, 500), Amt(0, 1500), Amt(0, 1000)>>),
      Body("array", <<Amt(1, 991), Amt(1, 990)>>) }

\* chainTokenSchema (81-87): amounts defaults to the four base amounts
ParsedAmounts(body) == IF body.kind = "absent" THEN BaseAmounts ELSE body.amounts

Range(seq) == { seq[i] : i \in 1..Len(seq) }

\* [...new Set(allAmounts)]: the first occurrence of each value, in the order
\* of the first occurrences
Dedupe(seq) ==
    LET first == { i \in 1..Len(seq) : \A j \in 1..(i - 1) : seq[j] # seq[i] }
    IN  [k \in 1..Cardinality(first) |->
            seq[CHOOSE i \in first : Cardinality({ j \in first : j < i }) = k - 1]]

\* .sort((a, b) => a - b): the elements in ascending order; position k holds
\* the value that has fewer than k smaller elements and at least k elements
\* not greater
SortAmounts(seq) ==
    [k \in 1..Len(seq) |->
        CHOOSE x \in Range(seq) :
            /\ Cardinality({ i \in 1..Len(seq) : AmtLess(seq[i], x) }) < k
            /\ Cardinality({ i \in 1..Len(seq) : ~AmtLess(x, seq[i]) }) >= k]

\* A plausible slip: the amounts are deduplicated and left in the order given.
UniqueAmountsUnsorted(amounts) == Dedupe(BaseAmounts \o amounts)

\* A plausible slip: the amounts are sorted with their duplicates.
UniqueAmountsWithDuplicates(amounts) == SortAmounts(BaseAmounts \o amounts)

\* 296-298
UniqueAmounts(amounts) == SortAmounts(Dedupe(BaseAmounts \o amounts))

\* uniqueAmounts for each body of the model
CheckpointsOf == [body \in { b \in RequestBodies : b.kind # "malformed" } |->
                    UniqueAmounts(ParsedAmounts(body))]

\* formatAmountKey.  The label is kept as the number it prints: num / den, plus
\* 9007199254740 when hi = 1, and the suffix.  amount / 1000 is the double
\* nearest to the quotient: exact to the printed digits for the small amounts,
\* a multiple of 2^-9 between 2^43 and 2^44 (no quotient of the model lies
\* halfway between two doubles).  Two labels are the same string exactly when
\* the records are equal.
FormatAmountKey(amount) ==
    IF amount.hi = 1
    THEN [suffix |-> "k", hi |-> 1, num |-> RoundDiv(amount.lo * 512, 1000), den |-> 512]
    ELSE IF amount.lo >= 1000
    THEN [suffix |-> "k", hi |-> 0, num |-> amount.lo, den |-> 1000]
    ELSE [suffix |-> "", hi |-> 0, num |-> amount.lo, den |-> 1]

\* the pair of the request
ORCH_FROM_TOKEN == ZERO_ADDRESS
ORCH_TO_TOKEN == USDT_MIXED

\* what getTokenPrice may return for the two tokens (SpecPrice)
FromPriceAnswers == {Num(3)}
ToPriceAnswers == {Num(2)}

\* What the upstreams of one adapter do while the request runs: answer with a
\* quote ("none": every upstream does), reject the fetch ("throw"), answer 503
\* ("http"), answer 200 with a body that is no JSON ("badjson"), or never
\* answer ("stall").
Outage(fn, kind) == [fn |-> fn, kind |-> kind]
NoOutage == Outage("none", "none")
Outages ==
    {NoOutage} \cup { Outage(fn, kind) : fn \in {"getLiFiQuote", "getBungeeQuotesBoth"},
                                         kind \in {"throw", "http", "badjson", "stall"} }

\* the 200 bodies of the upstreams that answer with a quote
LifiAnswer ==
    [null |-> FALSE, estimate |-> TRUE, transactionRequest |-> TRUE,
     estToAmount |-> Dec(5, 17), toAmount |-> AmtUndef, message |-> "", tool |-> "across"]
BungeeAnswer ==
    [null |-> FALSE, success |-> TRUE, message |-> "", hasResult |-> TRUE,
     autoRoute |-> Route(TRUE, Dec(5, 17), AmtUndef, "across"),
     manualRoutes |-> <<Route(TRUE, Dec(7, 17), AmtUndef, "stargate")>>, routes |-> <<>>]
UnavailableBody == [json |-> "no", message |-> ""]

\* the adapter call at its quote fetch; the token amount is not followed
AdapterCall(fn, usdAmount, fromTokenPrice) ==
    [NewCall(fn, ORCH_FROM_TOKEN, ORCH_TO_TOKEN, usdAmount, fromTokenPrice)
       EXCEPT !.pc = "quote",
              !.tokenPrice = TokenPriceOf(fromTokenPrice),
              !.tokenAmount = [k |-> "fin", n |-> 0, d |-> 1]]

\* the call when it returns or throws
AdapterReturn(call, outage) ==
    IF outage.fn = call.fn /\ outage.kind \in {"throw", "badjson"}
    THEN OuterCatch(call, outage.kind)
    ELSE IF outage.fn = call.fn /\ outage.kind = "http"
    THEN AfterHttpError(call, 503, UnavailableBody)
    ELSE IF IsLiFi(call.fn)
    THEN Finish(call, ResultOf(call.fn, LifiQuote(call, LifiAnswer)))
    ELSE Finish(call, BungeeQuotesBoth(call, BungeeAnswer))

Cell(quote) ==
    [outputAmount |-> quote.outputAmount, provider |-> quote.provider, error |-> quote.error]

\* provider.name === "LiFi" / "Bungee" (301, 312): the adapter, "" for any other name
AdapterOf(name) ==
    CASE name = "LiFi" -> "getLiFiQuote"
      [] name = "Bungee" -> "getBungeeQuotesBoth"
      [] OTHER -> ""

\* the rows of the matrix an adapter fills, by the name of the returned quote
RowsOf(fn) ==
    IF IsLiFi(fn) THEN ("quote" :> "lifi")
    ELSE ("auto" :> "bungee_auto" @@ "manual" :> "bungee_manual")

EmptyRow == [label \in {} |-> 0]

\* events of the trace of a request
PriceCall(chain, token) == [ev |-> "getTokenPrice", chain |-> chain, token |-> token]
PriceReturn(price) == [ev |-> "price", price |-> price]
QuoteInvocation(fn, provider, usdAmount, fromTokenPrice) ==
    [ev |-> "quote", fn |-> fn, provider |-> provider, usdAmount |-> usdAmount,
     fromTokenPrice |-> fromTokenPrice]

\* A plausible slip: the adapters are handed the price of the to-token.
PassedPriceOfToToken(r) == r.toTokenPrice

\* the fromTokenPrice argument of the adapter calls (309, 321)
PassedPrice(r) == r.fromTokenPrice

\* 305-310, 317-322: the call of the adapter for checkpoint j of provider i
StartCall(r) ==
    [r EXCEPT !.pc = "quote",
              !.trace = Append(@, QuoteInvocation(AdapterOf(r.providers[r.i].name),
                                                  r.providers[r.i].id,
                                                  r.uniqueAmounts[r.j], PassedPrice(r)))]

\* res.json(quotes) (330), res.status(400) (333), res.status(500) (336)
Respond(r, status) == [r EXCEPT !.pc = "done", !.status = status]

\* the providers from index i on that have an adapter
WithAdapter(providers, i) ==
    { k \in i..Len(providers) : AdapterOf(providers[k].name) # "" }

\* the provider loop (300-328) from provider i on, up to the next adapter
\* call: providers of any other name are passed over, the rows of the next
\* LiFi or Bungee provider are set to {}
EnterProvider(r, i) ==
    IF WithAdapter(r.providers, i) = {} THEN Respond(r, 200)
    ELSE LET next == CHOOSE k \in WithAdapter(r.providers, i) :
                         \A other \in WithAdapter(r.providers, i) : k <= other
             rows == RowsOf(AdapterOf(r.providers[next].name))
         IN  StartCall([r EXCEPT !.i = next, !.j = 1,
                                 !.quotes = [row \in { rows[l] : l \in DOMAIN rows }
                                                |-> EmptyRow] @@ @])

\* 280-289: the body is parsed, the active providers are read, getTokenPrice
\* is called for the from-token.  One request is followed: the handler keeps
\* everything but the store and the price cache in locals.
PostQuotes ==
    /\ req.pc = "idle"
    /\ \E body \in RequestBodies, outage \in Outages :
       req' = IF body.kind = "malformed"
              THEN [pc |-> "done", status |-> 400, body |-> body, outage |-> outage,
                    providers |-> <<>>, uniqueAmounts |-> <<>>,
                    fromTokenPrice |-> Undef, toTokenPrice |-> Undef,
                    i |-> 0, j |-> 0, quotes |-> <<>>, trace |-> <<>>]
              ELSE [pc |-> "price_from", status |-> 0, body |-> body, outage |-> outage,
                    providers |-> GetAllSwapProviders(swapProviders),
                    uniqueAmounts |-> <<>>,
                    fromTokenPrice |-> Undef, toTokenPrice |-> Undef,
                    i |-> 0, j |-> 0, quotes |-> <<>>,
                    trace |-> <<PriceCall(FROM_CHAIN, ORCH_FROM_TOKEN)>>]
    /\ UNCHANGED <<tokenPriceCache, now, proc, q, conv, swapProviders>>

\* 289-290: the from-token price arrives, getTokenPrice is called for the to-token
FromPriceReturns ==
    /\ req.pc = "price_from"
    /\ \E price \in FromPriceAnswers :
       req' = [req EXCEPT !.pc = "price_to", !.fromTokenPrice = price,
                          !.trace = @ \o <<PriceReturn(price),
                                           PriceCall(TO_CHAIN, ORCH_TO_TOKEN)>>]
    /\ UNCHANGED <<tokenPriceCache, now, proc, q, conv, swapProviders>>

\* 290-308: the to-token price arrives, the checkpoints are computed, the
\* provider loop runs to its first adapter call
ToPriceReturns ==
    /\ req.pc = "price_to"
    /\ \E price \in ToPriceAnswers :
       \E r \in {[req EXCEPT !.toTokenPrice = price,
                             !.trace = Append(@, PriceReturn(price)),
                             !.uniqueAmounts = CheckpointsOf[req.body]]} :
          req' = EnterProvider(r, 1)
    /\ UNCHANGED <<tokenPriceCache, now, proc, q, conv, swapProviders>>

\* the adapter call in flight
InFlight(r) ==
    AdapterCall(AdapterOf(r.providers[r.i].name), r.uniqueAmounts[r.j], r.fromTokenPrice)

Stalled(r) == r.outage.kind = "stall" /\ r.outage.fn = AdapterOf(r.providers[r.i].name)

\* 308, 324-325: quotes[row][amountKey] = the returned quote, for the rows of
\* the adapter
StoreQuotes(r, fn, result) ==
    LET amountKey == FormatAmountKey(r.uniqueAmounts[r.j])
        rows == RowsOf(fn)
    IN  [r EXCEPT !.quotes =
            [row \in { rows[l] : l \in DOMAIN rows } |->
                LET l == CHOOSE l \in DOMAIN rows : rows[l] = row
                IN  (amountKey :> Cell(result[l])) @@ r.quotes[row]] @@ @]

\* 308-330: the adapter call returns, its quotes are stored under the label of
\* the checkpoint, the loops go on to the next call or to the response; what
\* the call throws goes to the catch at 331
QuoteReturns ==
    /\ req.pc = "quote"
    /\ ~Stalled(req)
    /\ \E ret \in {AdapterReturn(InFlight(req), req.outage)} :
          IF ret.thrown THEN req' = Respond(req, 500)
          ELSE \E stored \in {StoreQuotes(req, ret.fn, ret.result)} :
                  req' = IF req.j < Len(req.uniqueAmounts)
                         THEN StartCall([stored EXCEPT !.j = @ + 1])
                         ELSE EnterProvider(stored, req.i + 1)
    /\ UNCHANGED <<tokenPriceCache, now, proc, q, conv, swapProviders>>

InitOrch ==
    /\ tokenPriceCache = EmptyCache
    /\ now = 0
    /\ proc = [p \in Procs |-> IdleProc]
    /\ q = NoCall
    /\ conv = NoConv
    /\ swapProviders = DefaultProviders
    /\ req = NoRequest

NextOrch ==
    \/ CreateSwapProvider
    \/ DeleteSwapProvider
    \/ PostQuotes
    \/ FromPriceReturns
    \/ ToPriceReturns
    \/ QuoteReturns

SpecOrch == InitOrch /\ [][NextOrch]_vars

\* SpecOrch with the scheduling of the handler: a getTokenPrice call returns,
\* and an adapter call whose upstreams answer returns, and the event loop then
\* runs the continuation of the handler.  No fetch of the code carries a
\* signal or a timer (843-848, 1055-1063), so nothing is scheduled for a call
\* whose upstream never answers.
SpecOrchLive ==
    /\ InitOrch
    /\ [][NextOrch]_vars
    /\ WF_vars(FromPriceReturns)
    /\ WF_vars(ToPriceReturns)
    /\ WF_vars(QuoteReturns)

-----------------------------------------------------------------------------
(* POST /api/quotes with its outbound requests.  The request of SpecOrch is   *)
(* followed fetch by fetch on the initial store: the two getTokenPrice calls  *)
(* are the executions "a" and "b" of the price machine, the adapter call of   *)
(* the moment is q, suspended at its token-list fetch and then at its quote   *)
(* fetch.  The upstreams of the prices answer as in SpecPrice, those of the   *)
(* adapters as the outage of the request says.                                *)

FlightFromTokens == {ZERO_ADDRESS, USDT_MIXED}

\* A plausible slip: the handler goes on without awaiting getTokenPrice.
PriceNotAwaited(p) == proc[p].pc # "idle"

\* await getTokenPrice(...) (289, 290): the handler resumes when the call has returned
PriceAwaited(p) == proc[p].pc = "done"

\* the adapter call of StartCall, suspended at its token-list fetch (771, 979)
FlightCall(r) ==
    [NewCall(AdapterOf(r.providers[r.i].name), r.fromToken, r.toToken,
             r.uniqueAmounts[r.j], r.fromTokenPrice)
       EXCEPT !.tokenPrice = TokenPriceOf(r.fromTokenPrice),
              !.tokenAmount = [k |-> "fin", n |-> 0, d |-> 1]]

\* 280-289: the body is parsed, the providers are read, getTokenPrice is
\* called for the from-token and runs to its first fetch
FlightPost ==
    /\ req.pc = "idle"
    /\ \E body \in RequestBodies, fromToken \in FlightFromTokens, outage \in Outages :
          IF body.kind = "malformed"
          THEN /\ req' = [pc |-> "done", status |-> 400, body |-> body, outage |-> outage,
                          fromToken |-> fromToken, toToken |-> ORCH_TO_TOKEN,
                          providers |-> <<>>, uniqueAmounts |-> <<>>,
                          fromTokenPrice |-> Undef, toTokenPrice |-> Undef,
                          i |-> 0, j |-> 0, quotes |-> <<>>, trace |-> <<>>]
               /\ UNCHANGED <<proc, tokenPriceCache>>
          ELSE /\ req' = [pc |-> "price_from", status |-> 0, body |-> body, outage |-> outage,
                          fromToken |-> fromToken, toToken |-> ORCH_TO_TOKEN,
                          providers |-> GetAllSwapProviders(swapProviders),
                          uniqueAmounts |-> <<>>,
                          fromTokenPrice |-> Undef, toTokenPrice |-> Undef,
                          i |-> 0, j |-> 0, quotes |-> <<>>,
                          trace |-> <<PriceCall(FROM_CHAIN, fromToken)>>]
               /\ BeginGetTokenPrice("a", FROM_CHAIN, fromToken)
    /\ UNCHANGED <<now, q, conv, swapProviders>>

\* 289-290: the first call has returned; getTokenPrice is called for the to-token
FlightFromPrice ==
    /\ req.pc = "price_from"
    /\ PriceAwaited("a")
    /\ req' = [req EXCEPT !.pc = "price_to", !.fromTokenPrice = proc["a"].result,
                          !.trace = @ \o <<PriceReturn(proc["a"].result),
                                           PriceCall(TO_CHAIN, req.toToken)>>]
    /\ BeginGetTokenPrice("b", TO_CHAIN, req.toToken)
    /\ UNCHANGED <<now, q, conv, swapProviders>>

\* 290-308: the second call has returned; the checkpoints are computed and the
\* provider loop runs to the token-list fetch of its first adapter call
FlightToPrice ==
    /\ req.pc = "price_to"
    /\ PriceAwaited("b")
    /\ \E r \in {EnterProvider([req EXCEPT !.toTokenPrice = proc["b"].result,
                                           !.trace = Append(@, PriceReturn(proc["b"].result)),
                                           !.uniqueAmounts = CheckpointsOf[req.body]], 1)} :
          /\ req' = r
          /\ q' = IF r.pc = "quote" THEN FlightCall(r) ELSE q
    /\ UNCHANGED <<tokenPriceCache, now, proc, conv, swapProviders>>

\* 771-848, 979-1063: the token list has answered or failed (the decimals are
\* not followed here); the adapter sends its quote request
FlightTokenList ==
    /\ q.pc = "tokens"
    /\ q' = [q EXCEPT !.pc = "quote",
                      !.reqs = Append(@, HttpRequest(QuoteEndpoint(q.fn), q.reqFromToken,
                                                     q.reqToToken, Big(0, 0)))]
    /\ UNCHANGED <<tokenPriceCache, now, proc, conv, swapProviders, req>>

\* 848-963, 1063-1279: the quote endpoint has answered or failed; the adapter returns
FlightQuoteAnswer ==
    /\ q.pc = "quote"
    /\ ~Stalled(req)
    /\ q' = AdapterReturn(q, req.outage)
    /\ UNCHANGED <<tokenPriceCache, now, proc, conv, swapProviders, req>>

\* 308-330: the adapter call has returned; its quotes are stored and the loops
\* go on to the token-list fetch of the next call, or to the response
FlightQuoteReturns ==
    /\ req.pc = "quote"
    /\ q.pc = "done"
    /\ \E r \in { IF q.thrown THEN Respond(req, 500)
                   ELSE IF req.j < Len(req.uniqueAmounts)
                   THEN StartCall([StoreQuotes(req, q.fn, q.result) EXCEPT !.j = @ + 1])
                   ELSE EnterProvider(StoreQuotes(req, q.fn, q.result), req.i + 1) } :
          /\ req' = r
          /\ q' = IF r.pc = "quote" THEN FlightCall(r) ELSE NoCall
    /\ UNCHANGED <<tokenPriceCache, now, proc, conv, swapProviders>>

NextFlight ==
    \/ FlightPost
    \/ FlightFromPrice
    \/ FlightToPrice
    \/ FlightTokenList
    \/ FlightQuoteAnswer
    \/ FlightQuoteReturns
    \/ \E p \in Procs, r \in FeedResponses : NativeResponse(p, r)
    \/ \E p \in Procs, r \in ListResponses(PriceListBodies) : BungeeListResponse(p, r)
    \/ \E p \in Procs, r \in ListResponses(PriceListBodies) : LifiListResponse(p, r)
    \/ \E p \in Procs, r \in ListResponses(PriceListBodies) : SymbolHelperResponse(p, r)
    \/ \E p \in Procs, r \in FeedResponses : KnownContractResponse(p, r)
    \/ \E p \in Procs, r \in FeedResponses : PlatformResponse(p, r)

SpecFlight == InitOrch /\ [][NextFlight]_vars

\* the outbound requests that have been sent and not yet answered: one for
\* each execution of getTokenPrice suspended at a fetch, one for an adapter
\* call suspended at a fetch
OutboundInFlight ==
    Cardinality({ p \in Procs : proc[p].pc \notin {"idle", "done"} })
    + (IF q.pc \in {"tokens", "quote"} THEN 1 ELSE 0)

\* the requests the price resolutions and the adapter call of the moment have sent
RequestsSent(p) == Len(proc[p].reqs)

\* C27: within one request at most one outbound request is in flight at any
\* moment (so never more than 8): the second price resolution has sent
\* nothing while the first is unanswered, and an adapter call exists only
\* when both price resolutions have returned.
C27_OneInFlight ==
    /\ OutboundInFlight <= 1
    /\ OutboundInFlight <= 8
    /\ proc["a"].pc \notin {"idle", "done"} => RequestsSent("b") = 0 /\ q.pc = "idle"
    /\ proc["b"].pc \notin {"idle", "done"} => proc["a"].pc = "done" /\ q.pc = "idle"
    /\ q.pc # "idle" => proc["a"].pc = "done" /\ proc["b"].pc = "done"

\* both prices were resolved with requests to the upstreams, the LiFi calls
\* have returned, and the quote fetch of a Bungee call is the one request in flight
C27_Witness ==
    /\ req.pc = "quote"
    /\ RequestsSent("a") >= 2 /\ RequestsSent("b") >= 2
    /\ "lifi" \in DOMAIN req.quotes
    /\ q.pc = "quote" /\ q.fn = "getBungeeQuotesBoth" /\ Len(q.reqs) = 2
    /\ OutboundInFlight = 1

-----------------------------------------------------------------------------
(* Properties of the provider store (storage.ts:67-103) *)

\* the store alone, under any sequence of calls of its three writing methods
NextStore ==
    \/ CreateSwapProvider
    \/ UpdateSwapProvider
    \/ DeleteSwapProvider

SpecStore == InitOrch /\ [][NextStore]_vars

KnownIds(providers) == { providers[i].id : i \in 1..Len(providers) }
ActiveIds(providers) ==
    { GetAllSwapProviders(providers)[k].id : k \in 1..Len(GetAllSwapProviders(providers)) }

\* C29: under any sequence of createSwapProvider, updateSwapProvider and
\* deleteSwapProvider no record leaves the store and no id changes; a provider
\* that is inactive stays out of getAllSwapProviders for ever while
\* getSwapProvider still returns it, inactive; a create adds one active record
\* under an id the store did not hold and leaves the others as they were; a
\* delete that returns true leaves the provider stored, inactive and out of
\* getAllSwapProviders; delete and update with an unknown id return false and
\* undefined and leave the store as it is.
C29_Store ==
    [][ /\ Len(swapProviders') \in {Len(swapProviders), Len(swapProviders) + 1}
        /\ \A i \in 1..Len(swapProviders) :
              /\ swapProviders'[i].id = swapProviders[i].id
              /\ ~swapProviders[i].isActive =>
                    /\ swapProviders[i].id \notin ActiveIds(swapProviders')
                    /\ GetSwapProvider(swapProviders', swapProviders[i].id).id = swapProviders[i].id
                    /\ ~GetSwapProvider(swapProviders', swapProviders[i].id).isActive
        /\ Len(swapProviders') = Len(swapProviders) + 1 =>
              /\ SubSeq(swapProviders', 1, Len(swapProviders)) = swapProviders
              /\ swapProviders'[Len(swapProviders')].isActive
              /\ swapProviders'[Len(swapProviders')].id \notin KnownIds(swapProviders)
        /\ \A id \in StoreIds :
              LET deleted == DeleteSwapProviderCall(swapProviders, id)
              IN  /\ id \notin KnownIds(swapProviders) =>
                        /\ deleted = [ret |-> FALSE, store |-> swapProviders]
                        /\ \A updates \in Updates :
                              UpdateSwapProviderCall(swapProviders, id, updates)
                                = [ret |-> NoProvider, store |-> swapProviders]
                  /\ deleted.ret = TRUE =>
                        /\ id \notin ActiveIds(deleted.store)
                        /\ GetSwapProvider(deleted.store, id).id = id
                        /\ ~GetSwapProvider(deleted.store, id).isActive
                        /\ Len(deleted.store) = Len(swapProviders)
      ]_vars

\* Bungee was deleted, LiFi renamed and a third provider created: three
\* records, the deleted one still stored and inactive, two returned as active
C29_Witness ==
    /\ Len(swapProviders) = 3
    /\ swapProviders[1] = SwapProvider(1, "Custom", TRUE)
    /\ swapProviders[2] = SwapProvider(2, "Bungee", FALSE)
    /\ swapProviders[3].isActive
    /\ ActiveIds(swapProviders) = {1, 3}
    /\ GetSwapProvider(swapProviders, 2).isActive = FALSE

-----------------------------------------------------------------------------
(* Properties of the quote adapters *)

Returned == q.pc = "done"
Quotes == { q.result[l] : l \in DOMAIN q.result }     \* the quotes a call returned
NonFinite(x) == x.k \in {"inf", "nan"}
IsInvalidAmountQuote(quote) ==
    quote.error = Err("Invalid amount", 0) /\ quote.outputAmount = ZeroOutput
SentQuoteRequest ==
    \E i \in 1..Len(q.reqs) : q.reqs[i].url = QuoteEndpoint(q.fn)

\* C6 as the spec states it: a call of getLiFiQuote or getBungeeQuotesBoth with
\* unitPrice = 0 or with a non-finite usdAmount returns only "Invalid amount"
\* quotes with outputAmount "0.0000".
C6_AsStated ==
    (/\ Returned
     /\ q.fn \in {"getLiFiQuote", "getBungeeQuotesBoth"}
     /\ (q.fromTokenPrice = Num(0) \/ NonFinite(q.usdAmount)))
    => \A quote \in Quotes : IsInvalidAmountQuote(quote)

\* C6: a call of getLiFiQuote or getBungeeQuotesBoth with a non-finite usdAmount
\* returns only "Invalid amount" quotes with outputAmount "0.0000" and sends no
\* quote request.  A unitPrice of 0 is replaced by 1: with a positive finite
\* usdAmount the call sends the quote request for usdAmount tokens
\* (usdAmount * 10^decimals base units) and every quote it returns carries
\* tokenPrice 1 or, if the fetch threw, 0.
C6_InvalidAmount ==
    (q.pc # "idle" /\ q.fn \in {"getLiFiQuote", "getBungeeQuotesBoth"}) =>
        /\ (Returned /\ NonFinite(q.usdAmount)) =>
                /\ \A quote \in Quotes : IsInvalidAmountQuote(quote)
                /\ ~SentQuoteRequest
        /\ (q.pc \in {"quote", "done"} /\ q.fromTokenPrice = Num(0)) =>
                /\ q.tokenPrice = Num(1)
                /\ (q.usdAmount.k = "num" /\ q.usdAmount.v > 0) =>
                        /\ Len(q.reqs) = 2
                        /\ q.reqs[2].url = QuoteEndpoint(q.fn)
                        /\ q.reqs[2].amount = Big(q.usdAmount.v, q.fromTokenDecimals)
                        /\ Returned => \A quote \in Quotes :
                                            /\ ~IsInvalidAmountQuote(quote)
                                            /\ quote.tokenPrice \in {Num(1), Num(0)}

\* both cases of C6 at once: usdAmount Infinity with unitPrice 0
C6_Witness ==
    /\ Returned
    /\ q.fn = "getLiFiQuote"
    /\ q.usdAmount = Infinity /\ q.fromTokenPrice = Num(0)
    /\ q.tokenPrice = Num(1)
    /\ IsInvalidAmountQuote(q.result["quote"])

\* C7: whenever the computed token amount is non-positive or non-finite,
\* getLiFiQuote and getBungeeQuotesBoth return only error quotes with
\* outputAmount "0.0000" and inputTokenAmount "0", and have sent no request to
\* the quote endpoint.
C7_NoRequestOnInvalidAmount ==
    (/\ q.pc \in {"quote", "done"}
     /\ q.fn \in {"getLiFiQuote", "getBungeeQuotesBoth"}
     /\ (q.tokenAmount.k # "num" \/ q.tokenAmount.n <= 0))
    => /\ Returned
       /\ ~SentQuoteRequest
       /\ \A quote \in Quotes : /\ quote.error # NoError
                                /\ quote.outputAmount = ZeroOutput
                                /\ quote.inputTokenAmount = ZeroInput

C7_Witness ==
    /\ Returned
    /\ q.fn = "getBungeeQuotesBoth"
    /\ q.usdAmount = Num(-7) /\ q.fromTokenPrice = Num(3)
    /\ q.tokenAmount.n < 0
    /\ DOMAIN q.result = {"auto", "manual"}
    /\ q.result["auto"].inputTokenAmount = ZeroInput
    /\ q.result["manual"].outputAmount = ZeroOutput

\* C8 as the spec states it: every returned quote either has no error and an
\* outputAmount greater than 0, or has an error and the outputAmount "0.0000".
C8_ExactlyOne ==
    Returned => \A quote \in Quotes :
        \/ quote.error = NoError /\ quote.outputAmount.m > 0
        \/ quote.error # NoError /\ quote.outputAmount = ZeroOutput

-----------------------------------------------------------------------------
(* Error kinds by HTTP status (part_000:850-902, 1067-1111) *)

\* the kind of the taxonomy a user-facing error text stands for
ErrorKind(error) ==
    CASE error.msg \in {"Rate limited", "Rate limited - please wait"} -> "RateLimited"
      [] error.msg = "Server error" -> "UpstreamServerError"
      [] error.msg = "Service unavailable" -> "UpstreamUnavailable"
      [] error.msg = "Error" -> "UnknownUpstreamError"
      [] OTHER -> error.msg

\* C23 as stated: for a response that is not ok, parsed error body or not, every
\* returned quote has the server-error kind for status 500, the unavailable
\* kind for status 503, and the unknown-upstream-error kind for every status
\* other than 429, 404, 400, 500 and 503.
C23_StatusDecides ==
    (Returned /\ q.response.status \in Statuses) =>
        \A quote \in Quotes :
            /\ q.response.status = 500 => ErrorKind(quote.error) = "UpstreamServerError"
            /\ q.response.status = 503 => ErrorKind(quote.error) = "UpstreamUnavailable"
            /\ q.response.status \notin {429, 404, 400, 500, 503}
                  => ErrorKind(quote.error) = "UnknownUpstreamError"

-----------------------------------------------------------------------------
\* the outputs of the manual routes that are positive
PositiveManualOutputs ==
    { ParseFloat(q.data.manualRoutes[i].amount) :
        i \in { j \in 1..Len(q.data.manualRoutes) :
                    /\ q.data.manualRoutes[j].output
                    /\ q.data.manualRoutes[j].amount.k = "dec" } }

LargestManualOutput ==
    CHOOSE a \in PositiveManualOutputs : \A b \in PositiveManualOutputs : ~BigGt(b, a)

\* C10: for a successful response of getBungeeQuotesBoth with no autoRoute and
\* at least one manual route with positive output, the manual quote has no
\* error and its outputAmount is the largest manual output divided by
\* 10^decimals(toToken) with 4 decimals (5 * 10^17 at 18 decimals: "0.5000"),
\* and the auto quote is an error quote with outputAmount "0.0000".
C10_ManualAlone ==
    (/\ Returned
     /\ q.fn = "getBungeeQuotesBoth"
     /\ q.response.status = 200
     /\ ~q.data.null /\ q.data.success /\ q.data.hasResult
     /\ ~q.data.autoRoute.exists
     /\ PositiveManualOutputs # {})
    => /\ q.result["manual"].error = NoError
       /\ q.result["manual"].outputAmount =
              ToFixed(LargestManualOutput, q.toTokenDecimals, 4)
       /\ (LargestManualOutput = Big(5, 17) /\ q.toTokenDecimals = 18)
              => q.result["manual"].outputAmount = DecStr(Big(5000, 0), 4)
       /\ q.result["auto"].error # NoError
       /\ q.result["auto"].outputAmount = ZeroOutput

\* two manual routes, the larger output second: 0.5 and 0.7 tokens
C10_Witness ==
    /\ Returned
    /\ q.fn = "getBungeeQuotesBoth"
    /\ q.response.status = 200
    /\ ~q.data.null /\ q.data.hasResult
    /\ ~q.data.autoRoute.exists
    /\ Len(q.data.manualRoutes) = 2
    /\ q.data.manualRoutes[1].amount = Dec(5, 17)
    /\ q.data.manualRoutes[2].amount = Dec(7, 17)
    /\ q.toTokenDecimals = 18
    /\ q.result["manual"].outputAmount = DecStr(Big(7000, 0), 4)
    /\ q.result["auto"].error = Err("No auto route", 0)


\* the decimal string `out` is amount / 10^decimals rounded to `places` decimal
\* places: its digits, read as an integer, are the integer nearest to
\* amount * 10^(places - decimals)
IsRounded(out, amount, decimals, places) ==
    LET x == amount.e + places - decimals
        units == out.m * Pow10(out.e)
        diff == units * Pow10(-x) - amount.m
    IN  /\ out.places = places
        /\ IF x >= 0 THEN Big(out.m, out.e) = Big(amount.m, x)
           ELSE IF -x > 9 THEN out.m = 0
           ELSE 2 * diff <= Pow10(-x) /\ -2 * diff <= Pow10(-x)

\* the output base units of a successful LiFi response
LifiToAmount == IF q.data.estimate /\ q.data.estToAmount.k # "undef"
                THEN q.data.estToAmount ELSE q.data.toAmount

\* C11: a quote that getLiFiQuote returns without error has as outputAmount the
\* returned output base units divided by 10^decimals(toToken), rounded to
\* exactly 2 decimal places (2630000000 at 6 decimals: "2630.00"); an auto quote
\* that getBungeeQuotesBoth returns without error has the autoRoute's output
\* divided by 10^decimals(toToken), rounded to exactly 4 decimal places.
C11_OutputFormat ==
    (Returned /\ q.response.status = 200) =>
        /\ (q.fn = "getLiFiQuote" /\ q.result["quote"].error = NoError) =>
              /\ IsRounded(q.result["quote"].outputAmount, ParseFloat(LifiToAmount),
                           q.toTokenDecimals, 2)
              /\ (LifiToAmount = Dec(263, 7) /\ q.toTokenDecimals = 6) =>
                    q.result["quote"].outputAmount = DecStr(Big(263000, 0), 2)
        /\ (q.fn = "getBungeeQuotesBoth" /\ q.result["auto"].error = NoError) =>
              IsRounded(q.result["auto"].outputAmount, ParseFloat(q.data.autoRoute.amount),
                        q.toTokenDecimals, 4)

C11_Witness ==
    /\ Returned
    /\ q.fn = "getLiFiQuote"
    /\ q.response.status = 200
    /\ q.data.estimate /\ q.data.estToAmount = Dec(263, 7)
    /\ q.toTokenDecimals = 6
    /\ q.result["quote"].error = NoError
    /\ q.result["quote"].outputAmount = DecStr(Big(263000, 0), 2)


\* the response of the quote endpoint carries a result with routes
HasRoutes == /\ Returned
             /\ q.response.status = 200
             /\ ~q.data.null /\ q.data.success /\ q.data.hasResult

\* C12: in getBungeeQuote, whenever the result holds an autoRoute with a nonzero
\* output amount, the returned quote is built from the autoRoute (its output,
\* its bridge name), whatever the manual routes are, those with a strictly
\* higher output included.
C12_AutoFirst ==
    (/\ q.pc # "idle" /\ q.fn = "getBungeeQuote"
     /\ HasRoutes
     /\ q.data.autoRoute.exists /\ q.data.autoRoute.output
     /\ q.data.autoRoute.amount.k = "dec")
    => /\ q.result["quote"].error = NoError
       /\ IsRounded(q.result["quote"].outputAmount, ParseFloat(q.data.autoRoute.amount),
                    q.toTokenDecimals, 4)
       /\ q.result["quote"].provider.name =
              IF q.data.autoRoute.bridge # "" THEN q.data.autoRoute.bridge ELSE "Bungee"

\* autoRoute with 0.5 tokens, a manual route with 0.7 tokens
C12_Witness ==
    /\ q.pc # "idle" /\ q.fn = "getBungeeQuote"
    /\ HasRoutes
    /\ q.data.autoRoute = Route(TRUE, Dec(5, 17), AmtUndef, "across")
    /\ Len(q.data.manualRoutes) = 1
    /\ q.data.manualRoutes[1].amount = Dec(7, 17)
    /\ q.toTokenDecimals = 18
    /\ q.result["quote"].outputAmount = DecStr(Big(5000, 0), 4)
    /\ q.result["quote"].provider.name = "across"


\* the indices of the manual routes that carry a positive output amount
PositiveManual ==
    { i \in 1..Len(q.data.manualRoutes) :
        q.data.manualRoutes[i].output /\ q.data.manualRoutes[i].amount.k = "dec" }

\* those of them whose output no other manual route exceeds
LargestManual ==
    { i \in PositiveManual : \A j \in PositiveManual :
        ~BigGt(ParseFloat(q.data.manualRoutes[j].amount),
               ParseFloat(q.data.manualRoutes[i].amount)) }

FirstLargestManual == CHOOSE i \in LargestManual : \A j \in LargestManual : i <= j

\* the quote that the manual-route selection feeds: the manual quote of
\* getBungeeQuotesBoth, the quote of getBungeeQuote when no autoRoute has an output
ManualSelectionApplies ==
    /\ q.pc # "idle"
    /\ q.fn \in {"getBungeeQuotesBoth", "getBungeeQuote"}
    /\ HasRoutes
    /\ Len(q.data.manualRoutes) > 0
    /\ \/ q.fn = "getBungeeQuotesBoth"
       \/ q.fn = "getBungeeQuote" /\ ~(q.data.autoRoute.exists /\ q.data.autoRoute.output)

QuoteOfManualSelection ==
    IF q.fn = "getBungeeQuotesBoth" THEN q.result["manual"] ELSE q.result["quote"]

\* C13: the manual-route selection of getBungeeQuotesBoth and getBungeeQuote
\* takes the route whose output is the maximum over the manual routes that carry
\* an output amount, the one with the lowest index when several share the
\* maximum (the quote names that route's bridge and prints that output); when
\* every manual route has a missing or zero output amount, no route is taken and
\* the quote is an error quote.
C13_BestManual ==
    ManualSelectionApplies =>
        IF PositiveManual # {}
        THEN /\ QuoteOfManualSelection.error = NoError
             /\ QuoteOfManualSelection.provider.name = BridgeName(FirstLargestManual)
             /\ IsRounded(QuoteOfManualSelection.outputAmount,
                          ParseFloat(q.data.manualRoutes[FirstLargestManual].amount),
                          q.toTokenDecimals, 4)
        ELSE /\ QuoteOfManualSelection.error # NoError
             /\ QuoteOfManualSelection.outputAmount = ZeroOutput

\* two manual routes with the same output: the first is taken
C13_Witness ==
    /\ ManualSelectionApplies
    /\ q.fn = "getBungeeQuote"
    /\ Len(q.data.manualRoutes) = 2
    /\ q.data.manualRoutes[1].amount = Dec(7, 17)
    /\ q.data.manualRoutes[2].amount = Dec(7, 17)
    /\ q.result["quote"].error = NoError
    /\ q.result["quote"].provider.name = "stargate"


-----------------------------------------------------------------------------
(* Fall-through of the route sources in getBungeeQuote (part_000:1475-1571) *)

\* the route offers an output that is not zero: output.amount, or one of the
\* flat fields outputAmount / toAmount / returnAmount
NonzeroOutput(route) ==
    /\ route.exists
    /\ \/ route.output /\ route.amount.k = "dec"
       \/ route.alt.k = "dec"

\* C24 as stated: getBungeeQuote takes the autoRoute if it has a nonzero output,
\* otherwise the best manual route, otherwise the first element of the legacy
\* list, and returns an error quote only when none of the three offers a route
\* with a nonzero output.
C24_FallThrough ==
    (q.pc # "idle" /\ q.fn = "getBungeeQuote" /\ HasRoutes) =>
        LET auto == NonzeroOutput(q.data.autoRoute)
            manual == PositiveManual # {}
            legacy == Len(q.data.routes) > 0 /\ NonzeroOutput(q.data.routes[1])
            quote == q.result["quote"]
        IN  /\ quote.error # NoError => ~auto /\ ~manual /\ ~legacy
            /\ (~auto /\ manual) =>
                  /\ quote.error = NoError
                  /\ quote.provider.name = BridgeName(FirstLargestManual)
            /\ (~auto /\ ~manual /\ legacy) =>
                  /\ quote.error = NoError
                  /\ quote.provider.name = "legacy"

-----------------------------------------------------------------------------
(* The decimals lookup (part_000:766-803, 974-1011) *)

\* the entries of the token-list response r for (chain, token), matched by
\* chain id and lower-cased address
ListedAt(r, chain, token) ==
    IF r.kind # "ok" THEN {}
    ELSE { i \in 1..Len(r.body) : /\ r.body[i].chain = chain
                                  /\ ToLowerCase(r.body[i].address) = ToLowerCase(token) }

\* the decimal count the list gives for the token, 18 when it gives none
ListedDecimals(r, chain, token) ==
    LET at == ListedAt(r, chain, token)
    IN  IF at = {} THEN 18
        ELSE r.body[CHOOSE i \in at : \A j \in at : i <= j].decimals

\* C26 as stated: whatever the adapter's token list answers, the call goes on
\* with the decimal count the list gives for the from token and for the to
\* token, with 18 exactly when the list was not fetched or does not list the
\* token on its chain; and whether the call ends in an error quote does not
\* depend on the token list's answer.
C26_Decimals ==
    (q.pc = "tokens") =>
        \A r \in ListResponses(DecimalsBodies) :
            LET next == AfterTokenList(q, r)
            IN  /\ next.fromTokenDecimals = ListedDecimals(r, q.fromChain, q.reqFromToken)
                /\ next.toTokenDecimals = ListedDecimals(r, q.toChain, q.reqToToken)
                /\ \A o \in ListResponses({<<>>}) : AfterTokenList(q, o).pc = next.pc

-----------------------------------------------------------------------------
IsSentinel(token) == ToLowerCase(token) \in {ZERO_ADDRESS, E_LOWER}
QuoteRequests == { i \in 1..Len(q.reqs) : q.reqs[i].url = QuoteEndpoint(q.fn) }
SentForm(fn, token) ==
    IF IsSentinel(token)
    THEN (IF fn = "getLiFiQuote" THEN ZERO_ADDRESS ELSE E_MIXED)
    ELSE token

\* C20: in every quote request a from- or to-token that equals, ignoring case,
\* one of the two native sentinels is sent as the all-zero address by
\* getLiFiQuote and as the mixed-case all-e address by the two Bungee adapters;
\* every other address is sent as the caller wrote it; and normalising an
\* address twice gives what normalising it once gives.
C20_NativeForm ==
    /\ q.pc # "idle" =>
          \A i \in QuoteRequests :
              /\ q.reqs[i].fromToken = SentForm(q.fn, q.fromToken)
              /\ q.reqs[i].toToken = SentForm(q.fn, q.toToken)
    /\ \A token \in QuoteFromTokens \cup QuoteToTokens \cup {DAI, UNKNOWN_TOKEN} :
          \A isForLiFi \in BOOLEAN :
              NormalizeTokenAddress(NormalizeTokenAddress(token, isForLiFi), isForLiFi)
                  = NormalizeTokenAddress(token, isForLiFi)

\* getBungeeQuotesBoth asked for a quote from the all-zero address to the
\* lower-case all-e address, and sent the mixed-case all-e address for both
C20_Witness ==
    /\ q.pc # "idle"
    /\ q.fn = "getBungeeQuotesBoth"
    /\ q.fromToken = ZERO_ADDRESS /\ q.toToken = E_LOWER
    /\ \E i \in QuoteRequests :
          q.reqs[i].fromToken = E_MIXED /\ q.reqs[i].toToken = E_MIXED

\* getLiFiQuote asked for a quote from the mixed-case all-e address to a
\* mixed-case token address, and sent the all-zero address and the token as written
C20_WitnessUnchanged ==
    /\ q.pc # "idle"
    /\ q.fn = "getLiFiQuote"
    /\ q.fromToken = E_MIXED /\ q.toToken = USDT_MIXED
    /\ \E i \in QuoteRequests :
          q.reqs[i].fromToken = ZERO_ADDRESS /\ q.reqs[i].toToken = USDT_MIXED


-----------------------------------------------------------------------------
(* Properties of POST /api/quotes *)

Responded(status) == req.pc = "done" /\ req.status = status
Checkpoints == Range(req.uniqueAmounts)
Invocations == { k \in 1..Len(req.trace) : req.trace[k].ev = "quote" }
PriceCalls == { k \in 1..Len(req.trace) : req.trace[k].ev = "getTokenPrice" }
PriceReturns == { k \in 1..Len(req.trace) : req.trace[k].ev = "price" }
\* the adapters of the providers the request read from the store
AdaptersRead == { AdapterOf(req.providers[i].name) : i \in 1..Len(req.providers) } \ {""}
RowsFilledBy(fn) == { RowsOf(fn)[l] : l \in DOMAIN RowsOf(fn) }
HasCell(row, amount) ==
    /\ row \in DOMAIN req.quotes
    /\ FormatAmountKey(amount) \in DOMAIN req.quotes[row]
CellOf(row, amount) == req.quotes[row][FormatAmountKey(amount)]
IsErrorCell(cell) == cell.error # NoError /\ cell.outputAmount = ZeroOutput

\* C14: when every quote call of one provider fails (the fetch rejects, the
\* answer is an HTTP error, or the body is no JSON), the adapter returns error
\* quotes and the request is answered with status 200 and a matrix in which
\* every row of every active provider has a cell for every checkpoint: error
\* cells with output "0.0000" for the failing provider, quotes for the others.
C14_Isolation ==
    (/\ req.pc = "done"
     /\ req.body.kind # "malformed"
     /\ req.outage.kind \in {"throw", "http", "badjson"})
    => /\ req.status = 200
       /\ \A fn \in AdaptersRead : \A row \in RowsFilledBy(fn) : \A amount \in Checkpoints :
             /\ HasCell(row, amount)
             /\ IF fn = req.outage.fn THEN IsErrorCell(CellOf(row, amount))
                ELSE CellOf(row, amount).error = NoError

\* the fetches of getLiFiQuote rejected during a request over both default
\* providers: the lifi row holds the thrown message, the bungee rows hold quotes
C14_Witness ==
    /\ Responded(200)
    /\ req.outage = Outage("getLiFiQuote", "throw")
    /\ AdaptersRead = {"getLiFiQuote", "getBungeeQuotesBoth"}
    /\ \A amount \in Checkpoints :
          /\ CellOf("lifi", amount).error = Err("fetch failed", 0)
          /\ CellOf("bungee_auto", amount).error = NoError
          /\ CellOf("bungee_manual", amount).error = NoError

\* C15: the checkpoints of a request are the set union of 1000, 7000, 30000,
\* 120000 and the amounts of the body, each once, in strictly ascending order,
\* and every provider's adapter is called for them in that order.
C15_Checkpoints ==
    (req.pc = "quote" \/ Responded(200))
    => LET given == {Amt(0, 1000), Amt(0, 7000), Amt(0, 30000), Amt(0, 120000)}
                       \cup (IF req.body.kind = "array" THEN Range(req.body.amounts) ELSE {})
           u == req.uniqueAmounts
       IN  /\ Checkpoints = given
           /\ Len(u) = Cardinality(given)
           /\ \A k \in 1..(Len(u) - 1) :
                 \/ u[k].hi < u[k + 1].hi
                 \/ u[k].hi = u[k + 1].hi /\ u[k].lo < u[k + 1].lo
           /\ \A k \in Invocations :
                 LET earlier == { e \in Invocations :
                                    e < k /\ req.trace[e].provider = req.trace[k].provider }
                 IN  req.trace[k].usdAmount = u[Cardinality(earlier) + 1]

\* a body with 1500 twice, 500 and 1000: six checkpoints, 500 first
C15_Witness ==
    /\ Responded(200)
    /\ req.body.amounts = <<Amt(0, 1500), Amt(0, 500), Amt(0, 1500), Amt(0, 1000)>>
    /\ req.uniqueAmounts = <<Amt(0, 500), Amt(0, 1000), Amt(0, 1500), Amt(0, 7000),
                             Amt(0, 30000), Amt(0, 120000)>>
    /\ Invocations # {}

\* C16: a request that passes validation calls getTokenPrice for the from-token
\* and then for the to-token and no further time; both calls have returned
\* before the first adapter call; every adapter call is handed the price the
\* first of the two calls returned.
C16_PricesOnce ==
    (req.pc # "idle" /\ req.body.kind # "malformed")
    => LET t == req.trace
       IN  /\ Cardinality(PriceCalls) <= 2
           /\ t[1] = PriceCall(FROM_CHAIN, ORCH_FROM_TOKEN)
           /\ req.pc \in {"price_to", "quote", "done"}
                 => /\ PriceCalls = {1, 3}
                    /\ t[3] = PriceCall(TO_CHAIN, ORCH_TO_TOKEN)
           /\ \A k \in Invocations :
                 /\ PriceReturns = {2, 4}
                 /\ k > 4
                 /\ t[k].fromTokenPrice = t[2].price

\* a request answered after adapter calls for both default providers
C16_Witness ==
    /\ Responded(200)
    /\ \E k \in Invocations : req.trace[k].fn = "getLiFiQuote"
    /\ \E k \in Invocations : req.trace[k].fn = "getBungeeQuotesBoth"
    /\ req.fromTokenPrice # req.toTokenPrice

\* C17 as stated: whatever createSwapProvider and deleteSwapProvider have made
\* of the store, a request calls the quote function of each adapter that has an
\* active provider exactly once per checkpoint, and calls no adapter for a
\* provider that was soft-deleted when the request read the store.
C17_OncePerCheckpoint ==
    Responded(200)
    => /\ \A fn \in AdaptersRead : \A amount \in Checkpoints :
             Cardinality({ k \in Invocations : /\ req.trace[k].fn = fn
                                               /\ req.trace[k].usdAmount = amount }) = 1
       /\ \A k \in Invocations :
             \E i \in 1..Len(req.providers) : req.providers[i].id = req.trace[k].provider

\* C18 as stated: two different checkpoints never have the same label, every
\* row of the matrix holds exactly one cell per checkpoint, and the bungee_auto
\* and bungee_manual rows hold the same labels.
C18_Labels ==
    Responded(200)
    => /\ \A a, b \in Checkpoints : a # b => FormatAmountKey(a) # FormatAmountKey(b)
       /\ \A row \in DOMAIN req.quotes :
             Cardinality(DOMAIN req.quotes[row]) = Len(req.uniqueAmounts)
       /\ "bungee_auto" \in DOMAIN req.quotes
             => DOMAIN req.quotes["bungee_auto"] = DOMAIN req.quotes["bungee_manual"]


\* C19 as stated: every outbound call ends within a per-call timeout, so a
\* request that has started is eventually answered, also when the upstream of
\* a quote call never answers.
C19_Completes == (req.pc # "idle") ~> (req.pc = "done")

=============================================================================
